---- MODULE Spec2Model ----
(***************************************************************************)
(* Signal evaluation and backtest simulation core of breezepython.         *)
(*                                                                         *)
(* Prices and Decimal amounts are integers, in hundredths of an index point *)
(* or of a rupee.  Python floats that carry money (capital, P&L totals) are  *)
(* IEEE 754 doubles, modelled bit for bit (section "Python floats"); bar    *)
(* prices are compared exactly.                                            *)
(* A zone is 2.5% = 1/40 of the previous week's range, so the two zone     *)
(* bounds that are not a previous-week extreme are kept multiplied by 40   *)
(* (fields *_x40) and prices are multiplied by 40 before they are compared *)
(* with them.                                                              *)
(* Timestamps are day numbers: the code only uses a timestamp's date, its  *)
(* week, whether it lies in market hours (an attribute of the data point)  *)
(* and its order against an expiry.                                        *)
(***************************************************************************)
EXTENDS Integers, Sequences, FiniteSets, TLC

VARIABLES
    context,          \* WeeklyContextManager's WeeklyContext
    current_bar,      \* the bar made from the data point last read
    signal_result,    \* what the last evaluate_all_signals call returned
    pc,               \* position of the driving loop
    params,           \* BacktestParameters of the run
    status,           \* BacktestRun.status
    error_message,    \* BacktestRun.error_message
    i,                \* data points of nifty_data read so far
    history,          \* nifty_data[:i], as the aggregates of its last two weeks
    current_capital,
    open_trades,      \* indices into all_trades (the lists share the trade objects)
    all_trades,
    daily_results,
    current_date,
    daily_starting_capital,
    results           \* the metrics _run_backtest_logic returns

svars == <<params, status, error_message, i, history, current_capital, open_trades, all_trades,
           daily_results, current_date, daily_starting_capital, results>>
vars == <<context, current_bar, signal_result, pc, params, status, error_message,
          i, history,
          current_capital, open_trades, all_trades, daily_results, current_date,
          daily_starting_capital, results>>

\* Python's None, for optional numbers (prices and times are never negative).
None == -1

\* the column error_message of a run record nothing was written to
NoMessage == "NULL"

Abs(x) == IF x < 0 THEN 0 - x ELSE x
Max2(a, b) == IF a >= b THEN a ELSE b
Min2(a, b) == IF a <= b THEN a ELSE b

RECURSIVE SeqMin(_), SeqMax(_)
SeqMin(s) == IF Len(s) = 1 THEN s[1] ELSE Min2(s[1], SeqMin(Tail(s)))
SeqMax(s) == IF Len(s) = 1 THEN s[1] ELSE Max2(s[1], SeqMax(Tail(s)))

\* bars[:-1]
AllButLast(s) == SubSeq(s, 1, Len(s) - 1)

(***************************************************************************)
(* Python floats (IEEE 754 binary64).  A float is a sign and a magnitude;  *)
(* the magnitude is an exact multiple of 2^-60, written as four limbs of   *)
(* 24 bits, least significant first.  Every operation computes the exact   *)
(* result and rounds it to 53 significant bits, ties to even.  Amounts     *)
(* from 0.01 up to some millions are represented without loss.             *)
(***************************************************************************)
Limb == 2^24
\* 2^60 = GridShift * Limb^2
GridShift == 2^12
\* significant bits of a double
MantissaBits == 53

BigZero == <<0, 0, 0, 0>>

BigAdd(a, b) ==
    LET s1 == a[1] + b[1]
        s2 == a[2] + b[2] + s1 \div Limb
        s3 == a[3] + b[3] + s2 \div Limb
        s4 == a[4] + b[4] + s3 \div Limb
    IN <<s1 % Limb, s2 % Limb, s3 % Limb, s4>>

\* a - b for a >= b
BigSub(a, b) ==
    LET s1 == a[1] - b[1]
        s2 == a[2] - b[2] + s1 \div Limb
        s3 == a[3] - b[3] + s2 \div Limb
        s4 == a[4] - b[4] + s3 \div Limb
    IN <<s1 % Limb, s2 % Limb, s3 % Limb, s4>>

BigLess(a, b) ==
    IF a[4] # b[4] THEN a[4] < b[4]
    ELSE IF a[3] # b[3] THEN a[3] < b[3]
    ELSE IF a[2] # b[2] THEN a[2] < b[2]
    ELSE a[1] < b[1]

\* a * k for 0 <= k < 128
BigMulSmall(a, k) ==
    LET p1 == a[1] * k
        p2 == a[2] * k + p1 \div Limb
        p3 == a[3] * k + p2 \div Limb
        p4 == a[4] * k + p3 \div Limb
    IN <<p1 % Limb, p2 % Limb, p3 % Limb, p4>>

RECURSIVE BitLen(_)
BitLen(n) == IF n = 0 THEN 0 ELSE 1 + BitLen(n \div 2)

BigBitLen(a) ==
    IF a[4] # 0 THEN 72 + BitLen(a[4])
    ELSE IF a[3] # 0 THEN 48 + BitLen(a[3])
    ELSE IF a[2] # 0 THEN 24 + BitLen(a[2])
    ELSE BitLen(a[1])

\* limb k of 2^d
Pow2Limb(d, k) == IF k = d \div 24 + 1 THEN 2^(d % 24) ELSE 0

\* 2^d
BigPow2(d) == <<Pow2Limb(d, 1), Pow2Limb(d, 2), Pow2Limb(d, 3), Pow2Limb(d, 4)>>

\* limb k of a mod 2^d
LowLimb(a, d, k) ==
    IF k < d \div 24 + 1 THEN a[k]
    ELSE IF k = d \div 24 + 1 THEN a[k] % 2^(d % 24)
    ELSE 0

\* a mod 2^d
BigLow(a, d) == <<LowLimb(a, d, 1), LowLimb(a, d, 2), LowLimb(a, d, 3), LowLimb(a, d, 4)>>

\* bit d of a
BigBit(a, d) == (a[d \div 24 + 1] \div 2^(d % 24)) % 2

\* a without its d low bits r, rounded up when r is above half of 2^d, or is
\* that half and the exact value lies above a (sticky) or the kept part is odd
RoundRemainder(a, r, d, sticky) ==
    IF BigLess(BigPow2(d - 1), r) \/ (r = BigPow2(d - 1) /\ (sticky \/ BigBit(a, d) = 1))
    THEN BigAdd(BigSub(a, r), BigPow2(d))
    ELSE BigSub(a, r)

RoundLowBits(a, d, sticky) ==
    IF d <= 0 THEN a ELSE RoundRemainder(a, BigLow(a, d), d, sticky)

\* a rounded to 53 significant bits, ties to even
Round53(a, sticky) == RoundLowBits(a, BigBitLen(a) - MantissaBits, sticky)

Float(neg, mag) == [neg |-> neg /\ mag # BigZero, mag |-> mag]

FloatZero == [neg |-> FALSE, mag |-> BigZero]

\* float(d) for a Decimal d of n hundredths: the double nearest to n / 100
float_of(n) ==
    LET a == Abs(n)
        t3 == (a % 100) * GridShift
        t2 == (t3 % 100) * Limb
        t1 == (t2 % 100) * Limb
        q == a \div 100
    IN Float(n < 0, Round53(<<t1 \div 100, t2 \div 100,
                              (q % GridShift) * GridShift + t3 \div 100,
                              q \div GridShift>>,
                            t1 % 100 # 0))

fneg(x) == Float(~x.neg, x.mag)

\* x + y
fadd(x, y) ==
    Float(IF x.neg = y.neg \/ ~BigLess(x.mag, y.mag) THEN x.neg ELSE y.neg,
          Round53(IF x.neg = y.neg THEN BigAdd(x.mag, y.mag)
                  ELSE IF BigLess(x.mag, y.mag) THEN BigSub(y.mag, x.mag)
                  ELSE BigSub(x.mag, y.mag),
                  FALSE))

\* x - y
fsub(x, y) == fadd(x, fneg(y))

\* x * k for a float x and an int k
fmul_int(x, k) == Float(x.neg # (k < 0), Round53(BigMulSmall(x.mag, Abs(k)), FALSE))

\* x < y
fless(x, y) ==
    IF x.neg # y.neg THEN x.neg
    ELSE IF x.neg THEN BigLess(y.mag, x.mag)
    ELSE BigLess(x.mag, y.mag)

\* the number of hundredths nearest to x
NearestAmount(x) ==
    LET p == BigAdd(BigMulSmall(x.mag, 100), BigPow2(59))
    IN (IF x.neg THEN -1 ELSE 1) * (p[4] * GridShift + p[3] \div GridShift)

\* a Decimal column that has not been set
NoDecimal == [is_none |-> TRUE, amount |-> 0, exact |-> FALSE]

\* the Decimal that str(x) prints, against an amount of hundredths: it is
\* that amount exactly when x is the double nearest to it (str prints the
\* shortest digits that read back as x); otherwise it has more digits
DecimalNear(x, amount) ==
    [is_none |-> FALSE, amount |-> amount, exact |-> float_of(amount) = x]

\* Decimal(str(x)) for a float x
Decimal(x) == DecimalNear(x, NearestAmount(x))

(***************************************************************************)
(* Value objects (domain/value_objects/signal_types.py)                    *)
(***************************************************************************)
BarData(ts, o, h, l, c) ==
    [timestamp |-> ts, open |-> o, high |-> h, low |-> l, close |-> c]

NoBar == BarData(None, None, None, None, None)

\* BarData.body_range
body_range(bar) == Abs(bar.open - bar.close)

SignalTypes == <<"S1", "S2", "S3", "S4", "S5", "S6", "S7", "S8">>
SignalSet == {SignalTypes[k] : k \in 1..8}
BullishSignals == {"S1", "S2", "S4", "S7"}

\* position of a signal in the priority order, 0 for no signal
SignalIndex(t) == IF t \in SignalSet THEN CHOOSE k \in 1..8 : SignalTypes[k] = t ELSE 0

\* SignalResult.no_signal()
no_signal ==
    [is_triggered |-> FALSE, signal_type |-> "NONE", direction |-> "NONE",
     option_type |-> "NONE", entry_time |-> None, entry_price |-> None,
     stop_loss |-> None, confidence |-> 0]

\* SignalResult.from_signal(...): bullish signals sell a PUT, bearish a CALL
from_signal(signal_type, stop_loss, entry_time, entry_price, confidence) ==
    [is_triggered |-> TRUE, signal_type |-> signal_type,
     direction |-> IF signal_type \in BullishSignals THEN "BULLISH" ELSE "BEARISH",
     option_type |-> IF signal_type \in BullishSignals THEN "PE" ELSE "CE",
     entry_time |-> entry_time, entry_price |-> entry_price,
     stop_loss |-> stop_loss, confidence |-> confidence]

\* price p on the scale of the *_x40 zone bounds
X40(p) == 40 * p

\* mutant: the zone size is 2.5 times the range, not 2.5% of it
calculate_zones_Percent(week_high, week_low, week_close) ==
    [prev_week_high |-> week_high, prev_week_low |-> week_low,
     prev_week_close |-> week_close,
     upper_zone_top |-> week_high,
     upper_zone_bottom_x40 |-> X40(week_high) - 100 * (week_high - week_low),
     lower_zone_top_x40 |-> X40(week_low) + 100 * (week_high - week_low),
     lower_zone_bottom |-> week_low]

\* WeeklyZones from the previous week's high, low and close:
\* zone_size = (high - low) * 0.025
calculate_zones(week_high, week_low, week_close) ==
    [prev_week_high |-> week_high, prev_week_low |-> week_low,
     prev_week_close |-> week_close,
     upper_zone_top |-> week_high,
     upper_zone_bottom_x40 |-> X40(week_high) - (week_high - week_low),
     lower_zone_top_x40 |-> X40(week_low) + (week_high - week_low),
     lower_zone_bottom |-> week_low]

NoZones == calculate_zones(None, None, None)

\* WeeklyZones.is_near_upper_zone / is_near_lower_zone: within the bounds, inclusive
is_near_upper_zone(zones, price) ==
    X40(price) >= zones.upper_zone_bottom_x40 /\ price <= zones.upper_zone_top

is_near_lower_zone(zones, price) ==
    price >= zones.lower_zone_bottom /\ X40(price) <= zones.lower_zone_top_x40

BiasValues == {"BULLISH", "BEARISH", "NEUTRAL"}

is_bullish(bias) == bias = "BULLISH"
is_bearish(bias) == bias = "BEARISH"

\* WeeklyContext as the context manager holds it before the first bar
EmptyContext ==
    [current_week_start |-> None, zones |-> NoZones, bias |-> "NEUTRAL",
     first_hour_bar |-> NoBar, weekly_bars |-> <<>>,
     signal_triggered_this_week |-> FALSE, triggered_signal |-> "NONE",
     triggered_at |-> None,
     s4_breakout_candle_high |-> None, s8_breakdown_candle_low |-> None,
     has_touched_upper_zone_this_week |-> FALSE,
     weekly_max_high |-> None, weekly_min_low |-> None]

(***************************************************************************)
(* SignalEvaluator (domain/services/signal_evaluator.py).  Every evaluator *)
(* returns the signal together with the context as the call leaves it:     *)
(* the breakout and breakdown checks write to the context they are given.  *)
(***************************************************************************)
Ret(signal, ctx) == [signal |-> signal, context |-> ctx]

is_second_bar(ctx) == Len(ctx.weekly_bars) = 2
first_bar(ctx) == ctx.weekly_bars[1]

Lows(bars) == [k \in 1..Len(bars) |-> bars[k].low]
Highs(bars) == [k \in 1..Len(bars) |-> bars[k].high]
Closes(bars) == [k \in 1..Len(bars) |-> bars[k].close]

\* one iteration of the loop of _check_s4_trigger; st carries highest_high,
\* signal_fired and context.s4_breakout_candle_high
S4LoopStep(st, bar, first_hour_high, first_hour_day) ==
    IF st.signal_fired THEN st
    ELSE LET highest_high_before == st.highest_high
             st1 == [st EXCEPT !.highest_high = Max2(st.highest_high, bar.high)]
         IN IF bar.timestamp = first_hour_day
            THEN IF bar.close > first_hour_high
                 THEN [st1 EXCEPT !.signal_fired = TRUE] ELSE st1
            ELSE IF st.candle = None
                 THEN IF /\ bar.close > bar.open
                         /\ bar.close > first_hour_high
                         /\ bar.high >= highest_high_before
                      THEN [st1 EXCEPT !.candle = bar.high] ELSE st1
                 ELSE IF bar.close > st.candle
                      THEN [st1 EXCEPT !.signal_fired = TRUE] ELSE st1

RECURSIVE S4Loop(_, _, _, _)
S4Loop(st, bars, first_hour_high, first_hour_day) ==
    IF bars = <<>> THEN st
    ELSE S4Loop(S4LoopStep(st, Head(bars), first_hour_high, first_hour_day),
                Tail(bars), first_hour_high, first_hour_day)

\* mutant: the earlier bars are never found to have triggered
_check_s4_trigger_simple_Never(bars, ctx) == FALSE

_check_s4_trigger_simple(bars, ctx) ==
    IF bars = <<>> \/ ctx.first_hour_bar = NoBar THEN FALSE
    ELSE \E k \in 1..Len(bars) : bars[k].close > ctx.first_hour_bar.high

\* returns [fired, context]
_check_s4_trigger(weekly_bars, ctx) ==
    IF weekly_bars = <<>> \/ ctx.first_hour_bar = NoBar
    THEN [fired |-> FALSE, context |-> ctx]
    ELSE LET st == S4Loop([highest_high |-> 0, signal_fired |-> FALSE,
                           candle |-> ctx.s4_breakout_candle_high],
                          weekly_bars, ctx.first_hour_bar.high,
                          ctx.first_hour_bar.timestamp)
             ctx1 == [ctx EXCEPT !.s4_breakout_candle_high = st.candle]
         IN IF Len(weekly_bars) >= 2
            THEN [fired |-> st.signal_fired
                            /\ ~_check_s4_trigger_simple(AllButLast(weekly_bars), ctx1),
                  context |-> ctx1]
            ELSE [fired |-> st.signal_fired, context |-> ctx1]

\* one iteration of the loop of _check_s8_trigger; lowest_low starts at
\* float('inf'), written None here
S8LoopStep(st, bar, first_hour_low, first_hour_day) ==
    IF st.signal_fired THEN st
    ELSE LET lowest_low_before == st.lowest_low
             st1 == [st EXCEPT !.lowest_low =
                        IF st.lowest_low = None THEN bar.low
                        ELSE Min2(st.lowest_low, bar.low)]
         IN IF bar.timestamp = first_hour_day
            THEN IF bar.close < first_hour_low
                 THEN [st1 EXCEPT !.signal_fired = TRUE] ELSE st1
            ELSE IF st.candle = None
                 THEN IF /\ bar.close < bar.open
                         /\ bar.close < first_hour_low
                         /\ (lowest_low_before = None \/ bar.low <= lowest_low_before)
                      THEN [st1 EXCEPT !.candle = bar.low] ELSE st1
                 ELSE IF bar.close < st.candle
                      THEN [st1 EXCEPT !.signal_fired = TRUE] ELSE st1

RECURSIVE S8Loop(_, _, _, _)
S8Loop(st, bars, first_hour_low, first_hour_day) ==
    IF bars = <<>> THEN st
    ELSE S8Loop(S8LoopStep(st, Head(bars), first_hour_low, first_hour_day),
                Tail(bars), first_hour_low, first_hour_day)

_check_s8_trigger_simple(bars, ctx) ==
    IF bars = <<>> \/ ctx.first_hour_bar = NoBar THEN FALSE
    ELSE \E k \in 1..Len(bars) : bars[k].close < ctx.first_hour_bar.low

_check_s8_trigger(weekly_bars, ctx) ==
    IF weekly_bars = <<>> \/ ctx.first_hour_bar = NoBar
    THEN [fired |-> FALSE, context |-> ctx]
    ELSE LET st == S8Loop([lowest_low |-> None, signal_fired |-> FALSE,
                           candle |-> ctx.s8_breakdown_candle_low],
                          weekly_bars, ctx.first_hour_bar.low,
                          ctx.first_hour_bar.timestamp)
             ctx1 == [ctx EXCEPT !.s8_breakdown_candle_low = st.candle]
         IN IF Len(weekly_bars) >= 2
            THEN [fired |-> st.signal_fired
                            /\ ~_check_s8_trigger_simple(AllButLast(weekly_bars), ctx1),
                  context |-> ctx1]
            ELSE [fired |-> st.signal_fired, context |-> ctx1]

\* mutant: the stop loss forgets the first bar's body range
_evaluate_s1_NoBody(current, ctx) ==
    IF ~is_second_bar(ctx) THEN Ret(no_signal, ctx)
    ELSE LET zones == ctx.zones
             first == first_bar(ctx)
         IN IF /\ first.open >= zones.lower_zone_bottom
               /\ first.close < zones.lower_zone_bottom
               /\ current.close > first.low
            THEN Ret(from_signal("S1", first.low, current.timestamp,
                                 current.close, 85), ctx)
            ELSE Ret(no_signal, ctx)

\* S1: bear trap, second bar only
_evaluate_s1(current, ctx) ==
    IF ~is_second_bar(ctx) THEN Ret(no_signal, ctx)
    ELSE LET zones == ctx.zones
             first == first_bar(ctx)
             cond1 == first.open >= zones.lower_zone_bottom
             cond2 == first.close < zones.lower_zone_bottom
             cond3 == current.close > first.low
         IN IF cond1 /\ cond2 /\ cond3
            THEN Ret(from_signal("S1", first.low - body_range(first),
                                 current.timestamp, current.close, 85), ctx)
            ELSE Ret(no_signal, ctx)

\* S2: support hold, bullish bias, second bar only
_evaluate_s2(current, ctx) ==
    IF ~is_second_bar(ctx) \/ ~is_bullish(ctx.bias) THEN Ret(no_signal, ctx)
    ELSE LET zones == ctx.zones
             first == first_bar(ctx)
             close_to_support_prev == is_near_lower_zone(zones, zones.prev_week_close)
             close_to_support_first == is_near_lower_zone(zones, first.open)
         IN IF /\ first.open > zones.prev_week_low
               /\ close_to_support_prev
               /\ close_to_support_first
               /\ first.close >= zones.lower_zone_bottom
               /\ first.close >= zones.prev_week_close
               /\ current.close >= first.low
               /\ current.close > zones.prev_week_close
               /\ current.close > zones.lower_zone_bottom
            THEN Ret(from_signal("S2", zones.lower_zone_bottom,
                                 current.timestamp, current.close, 80), ctx)
            ELSE Ret(no_signal, ctx)

\* scenario B of S3 and S6: close below the first bar's low, the resistance
\* zone and the week's lows and closes before the current bar
BreakdownBelowWeeklyLows(current, ctx) ==
    /\ Len(ctx.weekly_bars) > 1
    /\ current.close < first_bar(ctx).low
    /\ X40(current.close) < ctx.zones.upper_zone_bottom_x40
    /\ current.close < SeqMin(Lows(AllButLast(ctx.weekly_bars)))
    /\ current.close < SeqMin(Closes(AllButLast(ctx.weekly_bars)))

\* S3: resistance hold, bearish bias, two scenarios
_evaluate_s3(current, ctx) ==
    IF ctx.weekly_bars = <<>> \/ ~is_bearish(ctx.bias) THEN Ret(no_signal, ctx)
    ELSE LET zones == ctx.zones
             first == first_bar(ctx)
             close_to_resistance_prev == is_near_upper_zone(zones, zones.prev_week_close)
             close_to_resistance_first == is_near_upper_zone(zones, first.open)
             touched_zone == \/ X40(first.high) >= zones.upper_zone_bottom_x40
                             \/ X40(current.high) >= zones.upper_zone_bottom_x40
         IN IF ~(/\ close_to_resistance_prev
                 /\ close_to_resistance_first
                 /\ first.close <= zones.prev_week_high)
            THEN Ret(no_signal, ctx)
            ELSE IF /\ is_second_bar(ctx)
                    /\ current.close < first.high
                    /\ X40(current.close) < zones.upper_zone_bottom_x40
                    /\ touched_zone
            THEN Ret(from_signal("S3", zones.prev_week_high,
                                 current.timestamp, current.close, 75), ctx)
            ELSE IF BreakdownBelowWeeklyLows(current, ctx)
            THEN Ret(from_signal("S3", zones.prev_week_high,
                                 current.timestamp, current.close, 78), ctx)
            ELSE Ret(no_signal, ctx)

\* S4: bias failure bull
_evaluate_s4(current, ctx) ==
    IF \/ ctx.weekly_bars = <<>>
       \/ ~is_bearish(ctx.bias)
       \/ first_bar(ctx).open <= ctx.zones.upper_zone_top
    THEN Ret(no_signal, ctx)
    ELSE LET chk == _check_s4_trigger(ctx.weekly_bars, ctx)
             stop_loss == IF ctx.first_hour_bar # NoBar THEN ctx.first_hour_bar.low
                          ELSE first_bar(ctx).low
         IN IF chk.fired
            THEN Ret(from_signal("S4", stop_loss, current.timestamp,
                                 current.close, 82), chk.context)
            ELSE Ret(no_signal, chk.context)

\* S5: bias failure bear
_evaluate_s5(current, ctx) ==
    IF \/ ctx.weekly_bars = <<>>
       \/ ctx.first_hour_bar = NoBar
       \/ ~is_bullish(ctx.bias)
    THEN Ret(no_signal, ctx)
    ELSE LET zones == ctx.zones
         IN IF /\ first_bar(ctx).open < zones.lower_zone_bottom
               /\ ctx.first_hour_bar.close < zones.lower_zone_bottom
               /\ ctx.first_hour_bar.close < zones.prev_week_low
               /\ current.close < ctx.first_hour_bar.low
            THEN Ret(from_signal("S5", ctx.first_hour_bar.high,
                                 current.timestamp, current.close, 80), ctx)
            ELSE Ret(no_signal, ctx)

\* S6: weakness confirmed
_evaluate_s6(current, ctx) ==
    IF ctx.weekly_bars = <<>> \/ ~is_bearish(ctx.bias) THEN Ret(no_signal, ctx)
    ELSE LET zones == ctx.zones
             first == first_bar(ctx)
         IN IF ~(/\ X40(first.high) >= zones.upper_zone_bottom_x40
                 /\ first.close <= zones.upper_zone_top
                 /\ first.close <= zones.prev_week_high)
            THEN Ret(no_signal, ctx)
            ELSE IF /\ is_second_bar(ctx)
                    /\ current.close < first.high
                    /\ X40(current.close) < zones.upper_zone_bottom_x40
            THEN Ret(from_signal("S6", zones.prev_week_high,
                                 current.timestamp, current.close, 73), ctx)
            ELSE IF BreakdownBelowWeeklyLows(current, ctx)
            THEN Ret(from_signal("S6", zones.prev_week_high,
                                 current.timestamp, current.close, 75), ctx)
            ELSE Ret(no_signal, ctx)

\* gap_pct = (prev_week_high - close) / close * 100 < 0.40, cleared of the division
too_close_below(current, zones) ==
    /\ current.close < zones.prev_week_high
    /\ (zones.prev_week_high - current.close) * 1000 < 4 * current.close

\* S7: 1H breakout confirmed
_evaluate_s7(current, ctx) ==
    LET chk == _check_s4_trigger(ctx.weekly_bars, ctx)
        ctx1 == chk.context
        stop_loss == IF ctx.first_hour_bar # NoBar THEN ctx.first_hour_bar.low
                     ELSE first_bar(ctx).low
    IN IF ~chk.fired \/ too_close_below(current, ctx.zones) THEN Ret(no_signal, ctx1)
       ELSE IF /\ Len(ctx.weekly_bars) > 1
               /\ current.close > SeqMax(Highs(AllButLast(ctx.weekly_bars)))
               /\ current.close > SeqMax(Closes(AllButLast(ctx.weekly_bars)))
       THEN Ret(from_signal("S7", stop_loss, current.timestamp, current.close, 88), ctx1)
       ELSE Ret(no_signal, ctx1)

\* S8: 1H breakdown confirmed
_evaluate_s8(current, ctx) ==
    LET chk == _check_s8_trigger(ctx.weekly_bars, ctx)
        ctx1 == chk.context
        stop_loss == IF ctx.first_hour_bar # NoBar THEN ctx.first_hour_bar.high
                     ELSE first_bar(ctx).high
    IN IF \/ ~chk.fired
          \/ ~ctx.has_touched_upper_zone_this_week
          \/ X40(current.close) >= ctx.zones.upper_zone_bottom_x40
       THEN Ret(no_signal, ctx1)
       ELSE IF /\ Len(ctx.weekly_bars) > 1
               /\ current.close < SeqMin(Lows(AllButLast(ctx.weekly_bars)))
               /\ current.close < SeqMin(Closes(AllButLast(ctx.weekly_bars)))
       THEN Ret(from_signal("S8", stop_loss, current.timestamp, current.close, 87), ctx1)
       ELSE Ret(no_signal, ctx1)

\* the k-th entry of the evaluators list
Evaluator(k, current, ctx) ==
    CASE k = 1 -> _evaluate_s1(current, ctx)
      [] k = 2 -> _evaluate_s2(current, ctx)
      [] k = 3 -> _evaluate_s3(current, ctx)
      [] k = 4 -> _evaluate_s4(current, ctx)
      [] k = 5 -> _evaluate_s5(current, ctx)
      [] k = 6 -> _evaluate_s6(current, ctx)
      [] k = 7 -> _evaluate_s7(current, ctx)
      [] k = 8 -> _evaluate_s8(current, ctx)

\* mutant: the resistance-hold evaluator is tried before the bear trap
EvaluatorOrder_S3First == <<3, 1, 2, 4, 5, 6, 7, 8>>

\* the order in which the for loop of evaluate_all_signals walks the list
EvaluatorOrder == <<1, 2, 3, 4, 5, 6, 7, 8>>

\* mutant: a triggered signal leaves the week unmarked
MarkTriggered_Unmarked(ctx, signal) == ctx

\* "context.signal_triggered_this_week = True", triggered_signal, triggered_at
MarkTriggered(ctx, signal) ==
    [ctx EXCEPT !.signal_triggered_this_week = TRUE,
                !.triggered_signal = signal.signal_type,
                !.triggered_at = signal.entry_time]

\* the for loop over the evaluators, from position n on
RECURSIVE EvaluatorLoop(_, _, _)
EvaluatorLoop(n, current, ctx) ==
    IF n > Len(EvaluatorOrder) THEN Ret(no_signal, ctx)
    ELSE LET r == Evaluator(EvaluatorOrder[n], current, ctx)
         IN IF r.signal.is_triggered
            THEN Ret(r.signal, MarkTriggered(r.context, r.signal))
            ELSE EvaluatorLoop(n + 1, current, r.context)

\* mutant: the guard on entry is missing
AlreadyTriggered_Never(ctx) == FALSE

\* the guard on entry: nothing is evaluated once a signal has triggered this week
AlreadyTriggered(ctx) == ctx.signal_triggered_this_week

evaluate_all_signals(current, ctx) ==
    IF AlreadyTriggered(ctx) THEN Ret(no_signal, ctx)
    ELSE IF ctx.weekly_bars = <<>> THEN Ret(no_signal, ctx)
    ELSE EvaluatorLoop(1, current, ctx)

(***************************************************************************)
(* WeeklyContextManager (domain/services/weekly_context_manager.py)        *)
(***************************************************************************)
\* trading days in a week of the model's calendar
DaysPerWeek == 2

get_week_start(ts) == (ts \div DaysPerWeek) * DaysPerWeek

\* mutant: a bar of a new week is appended to the old week's context
update_context_NoReset(ctx, bar, prev, bias) ==
    [ctx EXCEPT !.current_week_start = get_week_start(bar.timestamp),
                !.weekly_bars = Append(ctx.weekly_bars, bar)]

\* update_context(current_bar, prev_week_bars): prev is the previous week's
\* [high, low, close]; bias is the bias the classifier derives from them
update_context(ctx, bar, prev, bias) ==
    LET new_week == ctx.current_week_start # get_week_start(bar.timestamp)
        base == IF new_week
                THEN [EmptyContext EXCEPT
                        !.current_week_start = get_week_start(bar.timestamp),
                        !.zones = calculate_zones(prev.high, prev.low, prev.close),
                        !.bias = bias,
                        !.first_hour_bar = bar]
                ELSE ctx
    IN [base EXCEPT
          !.weekly_bars = Append(base.weekly_bars, bar),
          !.weekly_max_high = IF base.weekly_max_high = None THEN bar.high
                              ELSE Max2(base.weekly_max_high, bar.high),
          !.weekly_min_low = IF base.weekly_min_low = None THEN bar.low
                             ELSE Min2(base.weekly_min_low, bar.low),
          !.has_touched_upper_zone_this_week =
              \/ base.has_touched_upper_zone_this_week
              \/ X40(bar.high) >= base.zones.upper_zone_bottom_x40]

(***************************************************************************)
(* OptionPricingService                                                    *)
(* (infrastructure/services/option_pricing_service.py)                     *)
(***************************************************************************)
\* strike interval of NIFTY options (50 points)
StrikeInterval == 50 * 100

\* mutant: the spot price is rounded down to a strike
calculate_atm_strike_Floor(spot_price) ==
    (spot_price \div StrikeInterval) * StrikeInterval

\* int(round(spot_price / strike_interval) * strike_interval); Python's round
\* takes a half to the even integer
calculate_atm_strike(spot_price) ==
    LET q == spot_price \div StrikeInterval
        r == spot_price % StrikeInterval
        nearest == IF 2 * r < StrikeInterval THEN q
                   ELSE IF 2 * r > StrikeInterval THEN q + 1
                   ELSE IF q % 2 = 0 THEN q ELSE q + 1
    IN nearest * StrikeInterval

get_option_strikes_for_signal(spot_price, signal_type, hedge_offset) ==
    IF signal_type \in {"S1", "S2", "S4", "S7"}
    THEN [main |-> calculate_atm_strike(spot_price),
          hedge |-> calculate_atm_strike(spot_price) - hedge_offset]
    ELSE [main |-> calculate_atm_strike(spot_price),
          hedge |-> calculate_atm_strike(spot_price) + hedge_offset]

\* get_option_price_at_time raised instead of returning
Raises == -2

\* premiums the gateway quotes
OptPrices == {10000, 5001}

\* what a call of get_option_price_at_time can come to: a price, 0.0, None,
\* or an exception of the data layer
PriceOutcomes == OptPrices \cup {0, None, Raises}

\* "if price:" on an Optional[float]
Truthy(price) == price # None /\ price # 0

(***************************************************************************)
(* RunBacktestUseCase (application/use_cases/run_backtest.py)              *)
(***************************************************************************)
\* get_expiry_for_week(week_start): the week's expiry day
get_expiry_for_week(week_start) == week_start + (DaysPerWeek - 1)

BacktestPosition(position_type, option_type, strike_price, expiry_date, entry_time, entry_price, quantity) ==
    [position_type |-> position_type, option_type |-> option_type,
     strike_price |-> strike_price, expiry_date |-> expiry_date,
     entry_time |-> entry_time, entry_price |-> entry_price,
     quantity |-> quantity, exit_time |-> None, exit_price |-> None,
     gross_pnl |-> None, commission |-> None, net_pnl |-> None]

\* BacktestTrade(...) as _open_trade builds it, with its positions
BacktestTrade(signal, bar, ctx, positions) ==
    [week_start_date |-> ctx.current_week_start,
     signal_type |-> signal.signal_type,
     direction |-> signal.direction,
     entry_time |-> bar.timestamp,
     index_price_at_entry |-> bar.close,
     signal_trigger_price |-> signal.entry_price,
     stop_loss_price |-> signal.stop_loss,
     outcome |-> "OPEN",
     exit_time |-> None, index_price_at_exit |-> None,
     exit_reason |-> "NONE", total_pnl |-> NoDecimal,
     positions |-> positions]

\* mutant: the main leg is bought
MainPosition_Bought(signal, bar, p, strikes, expiry, main_price) ==
    IF Truthy(main_price)
    THEN <<BacktestPosition("MAIN", signal.option_type, strikes.main, expiry,
                            bar.timestamp, main_price, p.lot_size)>>
    ELSE <<>>

\* "if main_price:" ... trade.positions.append(main_position)
MainPosition(signal, bar, p, strikes, expiry, main_price) ==
    IF Truthy(main_price)
    THEN <<BacktestPosition("MAIN", signal.option_type, strikes.main, expiry,
                            bar.timestamp, main_price, 0 - p.lot_size)>>
    ELSE <<>>

\* "if params.use_hedging:" ... "if hedge_price:" ...
HedgePosition(signal, bar, p, strikes, expiry, hedge_price) ==
    IF p.use_hedging /\ Truthy(hedge_price)
    THEN <<BacktestPosition("HEDGE", signal.option_type, strikes.hedge, expiry,
                            bar.timestamp, hedge_price, p.lot_size)>>
    ELSE <<>>

\* the positions of a new trade
OpenPositions(signal, bar, p, strikes, expiry, main_price, hedge_price) ==
    MainPosition(signal, bar, p, strikes, expiry, main_price)
        \o HedgePosition(signal, bar, p, strikes, expiry, hedge_price)

\* _open_trade: <<>> for None, <<trade>> for the trade it returns; main_price
\* and hedge_price are the outcomes of its two calls of the pricing gateway,
\* an exception of which is caught and makes it return None
_open_trade(signal, bar, ctx, p, main_price, hedge_price) ==
    IF main_price = Raises \/ (p.use_hedging /\ hedge_price = Raises) THEN <<>>
    ELSE << BacktestTrade(signal, bar, ctx,
                OpenPositions(signal, bar, p,
                    get_option_strikes_for_signal(bar.close, signal.signal_type,
                                                  p.hedge_offset),
                    get_expiry_for_week(ctx.current_week_start),
                    main_price, hedge_price)) >>

\* the literals of the commission computation in _close_trade
CommissionLotSize == 50
CommissionPerLot == 40 * 100

\* mutant: without a price the position is always settled at intrinsic value
ExitPrice_Intrinsic(position, exit_time, index_price, price) ==
    IF Truthy(price) THEN price
    ELSE IF position.option_type = "CE"
         THEN Max2(0, index_price - position.strike_price)
         ELSE Max2(0, position.strike_price - index_price)

\* the price a position is closed at; price is what the gateway returned
ExitPrice(position, exit_time, index_price, price) ==
    IF Truthy(price) THEN price
    ELSE IF exit_time >= position.expiry_date
         THEN IF position.option_type = "CE"
              THEN Max2(0, index_price - position.strike_price)
              ELSE Max2(0, position.strike_price - index_price)
         ELSE 0

\* mutant: a sold position is settled on its signed quantity
GrossPnl_Signed(position, exit_price) ==
    position.quantity * (position.entry_price - exit_price)

GrossPnl(position, exit_price) ==
    IF position.quantity < 0
    THEN Abs(position.quantity) * (position.entry_price - exit_price)
    ELSE position.quantity * (exit_price - position.entry_price)

\* lots = abs(position.quantity) // 50; commission = lots * 40 * 2
Commission(position) ==
    (Abs(position.quantity) \div CommissionLotSize) * CommissionPerLot * 2

\* one pass of the loop of _close_trade over a position
ClosePosition(position, exit_time, exit_price) ==
    [position EXCEPT !.exit_time = exit_time, !.exit_price = exit_price,
                     !.gross_pnl = GrossPnl(position, exit_price),
                     !.commission = Commission(position),
                     !.net_pnl = GrossPnl(position, exit_price) - Commission(position)]

\* "total_pnl += float(position.net_pnl)"
Settle(st, k, closed) ==
    [st EXCEPT !.positions[k] = closed,
               !.total_pnl = fadd(st.total_pnl, float_of(closed.net_pnl))]

\* the loop of _close_trade from position k on; st carries the positions, the
\* float total_pnl and whether the gateway raised
RECURSIVE CloseLoop(_, _, _, _, _)
CloseLoop(st, k, exit_time, index_price, px) ==
    IF k > Len(st.positions) THEN st
    ELSE IF px[st.positions[k].position_type] = Raises
    THEN [st EXCEPT !.raised = TRUE]
    ELSE CloseLoop(Settle(st, k,
                       ClosePosition(st.positions[k], exit_time,
                           ExitPrice(st.positions[k], exit_time, index_price,
                                     px[st.positions[k].position_type]))),
                   k + 1, exit_time, index_price, px)

\* mutant: a trade that made nothing counts as a loss
TradeOutcome_TieLoses(total_pnl, outcome) ==
    IF fless(FloatZero, total_pnl) THEN "WIN" ELSE "LOSS"

\* "if total_pnl > 0: WIN elif total_pnl < 0: LOSS", else the outcome passed
TradeOutcome(total_pnl, outcome) ==
    IF fless(FloatZero, total_pnl) THEN "WIN"
    ELSE IF fless(total_pnl, FloatZero) THEN "LOSS"
    ELSE outcome

\* the end of _close_trade, st being what the loop over the positions left:
\* the trade, the float returned, and whether the call raised (the trade is
\* then left half closed)
CloseResult(marked, st, outcome) ==
    IF st.raised
    THEN [trade |-> [marked EXCEPT !.positions = st.positions],
          pnl |-> FloatZero, raised |-> TRUE]
    ELSE [trade |-> [marked EXCEPT !.positions = st.positions,
                                   !.total_pnl = Decimal(st.total_pnl),
                                   !.outcome = TradeOutcome(st.total_pnl, outcome)],
          pnl |-> st.total_pnl, raised |-> FALSE]

_close_trade(trade, exit_time, index_price, outcome, reason, px) ==
    CloseResult([trade EXCEPT !.exit_time = exit_time,
                              !.index_price_at_exit = index_price,
                              !.outcome = outcome, !.exit_reason = reason],
                CloseLoop([positions |-> trade.positions, total_pnl |-> FloatZero,
                           raised |-> FALSE], 1, exit_time, index_price, px),
                outcome)

\* calculate_option_payoff, on floats: premium and spot_at_expiry in
\* hundredths, commission per lot in hundredths
calculate_option_payoff(option_type, strike, spot_at_expiry, premium, quantity, commission) ==
    fsub(IF quantity < 0
         THEN fmul_int(fsub(float_of(premium),
                            IF option_type = "CE"
                            THEN float_of(Max2(0, spot_at_expiry - strike))
                            ELSE float_of(Max2(0, strike - spot_at_expiry))),
                       Abs(quantity))
         ELSE fmul_int(fsub(IF option_type = "CE"
                            THEN float_of(Max2(0, spot_at_expiry - strike))
                            ELSE float_of(Max2(0, strike - spot_at_expiry)),
                            float_of(premium)),
                       quantity),
         fmul_int(float_of(commission), (Abs(quantity) \div CommissionLotSize) * 2))

\* open_trades without the trades in to_remove
RemoveTrades(trades, to_remove) ==
    SelectSeq(trades, LAMBDA t : t \notin to_remove)

\* mutant: a position expires only after its expiry date
HasExpired_After(trade, bar) ==
    \E k \in 1..Len(trade.positions) :
        bar.timestamp > trade.positions[k].expiry_date

\* "if current_bar.timestamp >= position.expiry_date" for some position
HasExpired(trade, bar) ==
    \E k \in 1..Len(trade.positions) :
        bar.timestamp >= trade.positions[k].expiry_date

\* a pass of the loops of _check_and_close_expiry_positions and
\* _check_stop_losses that closes trade t, r being what _close_trade came to
AfterClose(st, t, r) ==
    IF r.raised THEN [st EXCEPT !.trades[t] = r.trade, !.raised = TRUE]
    ELSE [st EXCEPT !.trades[t] = r.trade,
                    !.total_pnl = fadd(st.total_pnl, r.pnl),
                    !.to_remove = st.to_remove \cup {t}]

\* the loop of _check_and_close_expiry_positions from open trade k on; st
\* carries all_trades, total_pnl, trades_to_remove and whether a close raised
RECURSIVE ExpiryLoop(_, _, _, _, _)
ExpiryLoop(st, k, open, bar, px) ==
    IF k > Len(open) \/ st.raised THEN st
    ELSE IF st.trades[open[k]].outcome # "OPEN" \/ ~HasExpired(st.trades[open[k]], bar)
    THEN ExpiryLoop(st, k + 1, open, bar, px)
    ELSE ExpiryLoop(AfterClose(st, open[k],
                        _close_trade(st.trades[open[k]], bar.timestamp, bar.close,
                                     "EXPIRED", "Weekly expiry", px)),
                    k + 1, open, bar, px)

_check_and_close_expiry_positions(open, trades, bar, px) ==
    ExpiryLoop([trades |-> trades, total_pnl |-> FloatZero, to_remove |-> {},
                raised |-> FALSE], 1, open, bar, px)

\* mutant: a stop is hit only once the close has passed it
hit_stop_loss_Strict(trade, bar) ==
    IF trade.direction = "BULLISH"
    THEN bar.close < trade.stop_loss_price
    ELSE bar.close > trade.stop_loss_price

hit_stop_loss(trade, bar) ==
    IF trade.direction = "BULLISH"
    THEN bar.close <= trade.stop_loss_price
    ELSE bar.close >= trade.stop_loss_price

RECURSIVE StopLossLoop(_, _, _, _, _)
StopLossLoop(st, k, open, bar, px) ==
    IF k > Len(open) \/ st.raised THEN st
    ELSE IF st.trades[open[k]].outcome # "OPEN" \/ ~hit_stop_loss(st.trades[open[k]], bar)
    THEN StopLossLoop(st, k + 1, open, bar, px)
    ELSE StopLossLoop(AfterClose(st, open[k],
                          _close_trade(st.trades[open[k]], bar.timestamp, bar.close,
                                       "STOPPED", "Stop loss hit", px)),
                      k + 1, open, bar, px)

_check_stop_losses(open, trades, bar, px) ==
    StopLossLoop([trades |-> trades, total_pnl |-> FloatZero, to_remove |-> {},
                  raised |-> FALSE], 1, open, bar, px)

\* mutant: the closing loop after the series leaves the trade as it was
AfterFinalClose_Dropped(st, t, r) ==
    [st EXCEPT !.raised = r.raised]

\* a pass of the closing loop after the series: the P&L that _close_trade
\* returns is not used
AfterFinalClose(st, t, r) ==
    [st EXCEPT !.trades[t] = r.trade, !.raised = r.raised]

\* mutant: the closing loop after the series runs over every trade of the
\* list, closed or not
RECURSIVE FinalCloseLoop_All(_, _, _, _, _)
FinalCloseLoop_All(st, k, open, last, px) ==
    IF k > Len(st.trades) \/ st.raised THEN st
    ELSE FinalCloseLoop_All(AfterFinalClose(st, k,
                                _close_trade(st.trades[k], last.timestamp,
                                             last.close, "EXPIRED", "Backtest ended", px)),
                            k + 1, open, last, px)

RECURSIVE FinalCloseLoop(_, _, _, _, _)
FinalCloseLoop(st, k, open, last, px) ==
    IF k > Len(open) \/ st.raised THEN st
    ELSE IF st.trades[open[k]].outcome # "OPEN"
    THEN FinalCloseLoop(st, k + 1, open, last, px)
    ELSE FinalCloseLoop(AfterFinalClose(st, open[k],
                            _close_trade(st.trades[open[k]], last.timestamp,
                                         last.close, "EXPIRED", "Backtest ended", px)),
                        k + 1, open, last, px)

\* mutant: the premium of a sold position is credited when the trade is opened
RECURSIVE _calculate_position_cost_Credit(_)
_calculate_position_cost_Credit(positions) ==
    IF positions = <<>> THEN FloatZero
    ELSE IF positions[Len(positions)].quantity > 0
    THEN fadd(_calculate_position_cost_Credit(AllButLast(positions)),
              fmul_int(float_of(positions[Len(positions)].entry_price),
                       positions[Len(positions)].quantity))
    ELSE fsub(_calculate_position_cost_Credit(AllButLast(positions)),
              fmul_int(float_of(positions[Len(positions)].entry_price),
                       Abs(positions[Len(positions)].quantity)))

\* _calculate_position_cost: the premium paid for the bought positions
RECURSIVE _calculate_position_cost(_)
_calculate_position_cost(positions) ==
    IF positions = <<>> THEN FloatZero
    ELSE IF positions[Len(positions)].quantity > 0
    THEN fadd(_calculate_position_cost(AllButLast(positions)),
              fmul_int(float_of(positions[Len(positions)].entry_price),
                       positions[Len(positions)].quantity))
    ELSE _calculate_position_cost(AllButLast(positions))

\* the end of a pass of the loop of _calculate_max_drawdown; the percentage
\* (drawdown / peak) * 100 is kept as the drawdown and the peak it is taken of
DrawdownRecord(st, peak, drawdown) ==
    IF fless(st.max_dd, drawdown)
    THEN [peak |-> peak, max_dd |-> drawdown,
          max_dd_pct |-> IF fless(FloatZero, peak)
                         THEN [drawdown |-> drawdown, peak |-> peak]
                         ELSE [drawdown |-> FloatZero, peak |-> peak]]
    ELSE [st EXCEPT !.peak = peak]

\* "drawdown = peak - value"
DrawdownFromPeak(st, peak, value) == DrawdownRecord(st, peak, fsub(peak, value))

\* "if value > peak: peak = value"
DrawdownStep(st, value) ==
    DrawdownFromPeak(st, IF fless(st.peak, value) THEN value ELSE st.peak, value)

RECURSIVE DrawdownLoop(_, _)
DrawdownLoop(st, curve) ==
    IF curve = <<>> THEN st
    ELSE DrawdownLoop(DrawdownStep(st, Head(curve)), Tail(curve))

\* the dict _calculate_max_drawdown returns
DrawdownResult(st) == [value |-> st.max_dd, percent |-> st.max_dd_pct]

_calculate_max_drawdown(curve) ==
    IF curve = <<>>
    THEN [value |-> FloatZero, percent |-> [drawdown |-> FloatZero, peak |-> FloatZero]]
    ELSE DrawdownResult(
             DrawdownLoop([peak |-> curve[1], max_dd |-> FloatZero,
                           max_dd_pct |-> [drawdown |-> FloatZero, peak |-> curve[1]]],
                          curve))

\* the weeks of nifty_data[:i] that get_previous_week_data can be asked for:
\* high, low and last close of the latest week and of the one before it
NoWeek == [week |-> None, high |-> None, low |-> None, close |-> None]

EmptyHistory == [cur |-> NoWeek, last |-> NoWeek]

\* nifty_data[:i + 1] from nifty_data[:i]
AddToHistory(h, bar) ==
    IF h.cur.week = get_week_start(bar.timestamp)
    THEN [h EXCEPT !.cur.high = Max2(h.cur.high, bar.high),
                   !.cur.low = Min2(h.cur.low, bar.low),
                   !.cur.close = bar.close]
    ELSE [cur |-> [week |-> get_week_start(bar.timestamp), high |-> bar.high,
                   low |-> bar.low, close |-> bar.close],
          last |-> h.cur]

\* get_previous_week_data(timestamp, nifty_data[:i]): the week immediately
\* before the week of timestamp, NoWeek if the series has no bar of it
get_previous_week_data(timestamp, h) ==
    IF h.cur.week = get_week_start(timestamp) - DaysPerWeek THEN h.cur
    ELSE IF h.last.week = get_week_start(timestamp) - DaysPerWeek THEN h.last
    ELSE NoWeek

(***************************************************************************)
(* SpecEval: the evaluator driven bar by bar, as run_backtest.py and the   *)
(* trace scripts drive it: update_context, then (unless the caller skips   *)
(* it) evaluate_all_signals on the same bar.                               *)
(***************************************************************************)
\* bars kept per week, and days of the calendar, in SpecEval
MaxWeekBars == 3
EvalDays == 4

\* <<open, high, low, close>> in hundredths
EvalShapes ==
    { <<2515110, 2515110, 2504190, 2511980>>,
      <<2511980, 2511980, 2506395, 2506395>>,
      <<2539500, 2539500, 2490000, 2490000>>,
      <<2520000, 2520000, 2520000, 2520000>>,
      <<2500500, 2520000, 2500500, 2520000>>,
      <<2539500, 2539500, 2520000, 2520000>>,
      <<2550000, 2550000, 2550000, 2550000>>,
      <<2550000, 2560000, 2550000, 2560000>>,
      <<2490000, 2490000, 2490000, 2490000>>,
      <<2490000, 2490000, 2485000, 2485000>> }

\* previous weeks' high, low and close
EvalPrevWeeks ==
    { [high |-> 2540000, low |-> 2500000, close |-> 2500500],
      [high |-> 2540000, low |-> 2500000, close |-> 2539500],
      [high |-> 2540000, low |-> 2513000, close |-> 2520000] }

InitEval ==
    /\ context = EmptyContext
    /\ current_bar = NoBar
    /\ signal_result = no_signal
    /\ pc = "bar"
    /\ params = [signals_to_test |-> SignalSet]
    /\ status = "NONE"
    /\ error_message = NoMessage
    /\ i = 0
    /\ history = EmptyHistory
    /\ current_capital = FloatZero
    /\ open_trades = <<>>
    /\ all_trades = <<>>
    /\ daily_results = <<>>
    /\ current_date = None
    /\ daily_starting_capital = FloatZero
    /\ results = <<>>

\* the timestamps the next bar of the series may carry
NextTimes ==
    IF current_bar = NoBar THEN 0..(DaysPerWeek - 1)
    ELSE {current_bar.timestamp, current_bar.timestamp + 1} \cap 0..(EvalDays - 1)

\* the next bar of the series arrives in the current week
EvalUpdate ==
    /\ pc \in {"updated", "evaluated"}
    /\ Len(context.weekly_bars) < MaxWeekBars
    /\ \E sh \in EvalShapes, ts \in NextTimes :
          /\ context.current_week_start = get_week_start(ts)
          /\ current_bar' = BarData(ts, sh[1], sh[2], sh[3], sh[4])
          /\ context' = update_context(context, current_bar',
                                       [high |-> context.zones.prev_week_high,
                                        low |-> context.zones.prev_week_low,
                                        close |-> context.zones.prev_week_close],
                                       context.bias)
    /\ signal_result' = no_signal
    /\ pc' = "updated"
    /\ UNCHANGED svars

\* the next bar of the series is the first of a new week: the context is reset
\* from the previous week's data
EvalNewWeek ==
    /\ \E sh \in EvalShapes, ts \in NextTimes, prev \in EvalPrevWeeks,
          bias \in BiasValues :
          /\ context.current_week_start # get_week_start(ts)
          /\ current_bar' = BarData(ts, sh[1], sh[2], sh[3], sh[4])
          /\ context' = update_context(context, current_bar', prev, bias)
    /\ signal_result' = no_signal
    /\ pc' = "updated"
    /\ UNCHANGED svars

\* evaluate_all_signals(current_bar, context), which writes to the context
EvalEvaluate ==
    /\ pc = "updated"
    /\ LET r == evaluate_all_signals(current_bar, context)
       IN /\ signal_result' = r.signal
          /\ context' = r.context
    /\ pc' = "evaluated"
    /\ UNCHANGED current_bar
    /\ UNCHANGED svars

NextEval == EvalNewWeek \/ EvalUpdate \/ EvalEvaluate

SpecEval == InitEval /\ [][NextEval]_vars

(***************************************************************************)
(* Spec: one call of RunBacktestUseCase.execute.  The series nifty_data is *)
(* read one data point at a time and ends wherever Finish takes over.      *)
(***************************************************************************)
\* data points of the series, days of its calendar, and the warm-up prefix
\* ("if i < 7 * 6", one week of hourly bars, on the scale of the model's week)
MaxBars == 5
SimDays == 5
WarmupBars == 1

\* <<open, high, low, close>> of the data points, whole index points
SimShapes ==
    { <<2500000, 2500000, 2500000, 2500000>>,
      <<2510000, 2510000, 2490000, 2490000>> }

\* the series may end in a sell-off: the shape its last data point may also have
SellOffShape == <<2490000, 2490000, 2470000, 2470000>>

\* the shapes of data point number n of the series
ShapesAt(n) == IF n = MaxBars THEN SimShapes \cup {SellOffShape} ELSE SimShapes

\* data points outside market hours are skipped before their prices are used
OffHoursShape == <<2500000, 2500000, 2500000, 2500000>>

SimConfigs ==
    { [initial_capital |-> 50000000, lot_size |-> 75, signals_to_test |-> SignalSet,
       use_hedging |-> FALSE, hedge_offset |-> 50000, commission_per_lot |-> 4000],
      [initial_capital |-> 100000, lot_size |-> 25, signals_to_test |-> SignalSet,
       use_hedging |-> FALSE, hedge_offset |-> 50000, commission_per_lot |-> 2000],
      [initial_capital |-> 50000000, lot_size |-> 65, signals_to_test |-> {"S1"},
       use_hedging |-> TRUE, hedge_offset |-> 50000, commission_per_lot |-> 4000] }

PositionTypes == {"MAIN", "HEDGE"}

\* the position types of the open trades in closing
AskedTypes(closing) ==
    {t \in PositionTypes :
        \E k \in closing : \E j \in 1..Len(all_trades[k].positions) :
            all_trades[k].positions[j].position_type = t}

\* the gateway's answers for the positions of the trades in closing
Quotes(closing) ==
    {px \in [PositionTypes -> PriceOutcomes] :
        \A t \in PositionTypes \ AskedTypes(closing) : px[t] = None}

\* str(e) of the exceptions a run can end with
NoDataMessage == "No NIFTY data available for the specified period"
ZeroDivisionMessage == "float division by zero"
GatewayMessage == "gateway error"

\* mutant: the message of the exception is not stored
Recorded_Never(message) == error_message

\* _update_backtest_status: "if error_message: backtest_run.error_message =
\* error_message"
Recorded(message) == IF message # "" THEN message ELSE error_message

Init ==
    /\ params \in SimConfigs
    /\ status = "PENDING"
    /\ error_message = NoMessage
    /\ pc = "start"
    /\ i = 0
    /\ history = EmptyHistory
    /\ current_capital = float_of(params.initial_capital)
    /\ open_trades = <<>>
    /\ all_trades = <<>>
    /\ daily_results = <<>>
    /\ current_date = None
    /\ daily_starting_capital = float_of(params.initial_capital)
    /\ results = <<>>
    /\ context = EmptyContext
    /\ current_bar = NoBar
    /\ signal_result = no_signal

\* execute: the run record goes from PENDING to RUNNING
Start ==
    /\ pc = "start"
    /\ status' = "RUNNING"
    /\ pc' = "bar"
    /\ UNCHANGED <<context, current_bar, signal_result, params, error_message, i, history,
                   current_capital, open_trades, all_trades, daily_results,
                   current_date, daily_starting_capital, results>>

\* execute: get_nifty_data returned nothing, ValueError, the run is FAILED
NoData ==
    /\ pc = "bar"
    /\ i = 0
    /\ status' = "FAILED"
    /\ error_message' = Recorded(NoDataMessage)
    /\ pc' = "failed"
    /\ UNCHANGED <<context, current_bar, signal_result, params, i, history,
                   current_capital, open_trades, all_trades, daily_results,
                   current_date, daily_starting_capital, results>>

\* the timestamps the next data point of the series may carry
SimTimes ==
    IF current_bar = NoBar THEN 0..(DaysPerWeek - 1)
    ELSE {current_bar.timestamp, current_bar.timestamp + 1} \cap 0..(SimDays - 1)

\* BacktestDailyResult of the day that ends; daily_return_percent is
\* (daily_pnl / starting_capital) * 100 of the fields kept
DailyResult ==
    [date |-> current_date,
     starting_capital |-> daily_starting_capital,
     ending_capital |-> current_capital,
     daily_pnl |-> fsub(current_capital, daily_starting_capital),
     trades_opened |-> Cardinality({k \in 1..Len(all_trades) :
                                      all_trades[k].entry_time = current_date}),
     trades_closed |-> Cardinality({k \in 1..Len(all_trades) :
                                      all_trades[k].exit_time = current_date}),
     open_positions |-> Len(open_trades)]

\* "if current_date != current_bar.timestamp.date()" on a market-hours bar
\* while a day is being tracked
DayEnds(ts, market) == market /\ current_date # ts /\ current_date # None

\* mutant: a bar without previous-week data is processed
Skipped_WarmupOnly(ts, market) == ~market \/ i < WarmupBars

\* the bar is skipped: outside market hours, in the warm-up prefix, or without
\* previous-week data
Skipped(ts, market) ==
    ~market \/ i < WarmupBars \/ get_previous_week_data(ts, history) = NoWeek

\* the head of the loop body: the next data point, the market-hours and
\* new-day checks, the warm-up and previous-week skips, update_context
ReadBar ==
    /\ pc = "bar"
    /\ i < MaxBars
    /\ \E sh \in ShapesAt(i + 1), ts \in SimTimes, market \in BOOLEAN :
         /\ ~market => sh = OffHoursShape
         /\ current_bar' = BarData(ts, sh[1], sh[2], sh[3], sh[4])
         /\ history' = AddToHistory(history, current_bar')
         /\ i' = i + 1
         /\ signal_result' = no_signal
         /\ IF DayEnds(ts, market) /\ daily_starting_capital = FloatZero
            THEN \* daily_return_percent divides by zero
                 /\ status' = "FAILED"
                 /\ error_message' = Recorded(ZeroDivisionMessage)
                 /\ pc' = "failed"
                 /\ UNCHANGED <<context, daily_results, current_date,
                                daily_starting_capital>>
            ELSE /\ daily_results' = IF DayEnds(ts, market)
                                     THEN Append(daily_results, DailyResult)
                                     ELSE daily_results
                 /\ current_date' = IF market THEN ts ELSE current_date
                 /\ daily_starting_capital' =
                       IF market /\ current_date # ts THEN current_capital
                       ELSE daily_starting_capital
                 /\ IF Skipped(ts, market)
                    THEN /\ pc' = "bar"
                         /\ UNCHANGED context
                    ELSE /\ pc' = "expiry"
                         /\ \E bias \in BiasValues :
                              /\ context.current_week_start = get_week_start(ts)
                                    => bias = context.bias
                              /\ context' = update_context(context, current_bar',
                                                get_previous_week_data(ts, history),
                                                bias)
                 /\ UNCHANGED <<status, error_message>>
    /\ UNCHANGED <<params, current_capital, open_trades, all_trades, results>>

\* what the loop body does with the result r of _check_and_close_expiry_positions
\* or _check_stop_losses: "current_capital += ...", or the exception of a close
\* ends the run
AfterCloses(r, next_pc) ==
    /\ all_trades' = r.trades
    /\ IF r.raised
       THEN /\ status' = "FAILED"
            /\ error_message' = Recorded(GatewayMessage)
            /\ pc' = "failed"
            /\ UNCHANGED <<current_capital, open_trades>>
       ELSE /\ current_capital' = fadd(current_capital, r.total_pnl)
            /\ open_trades' = RemoveTrades(open_trades, r.to_remove)
            /\ pc' = next_pc
            /\ UNCHANGED <<status, error_message>>

\* the open trades _check_and_close_expiry_positions closes on this bar
ExpiryCloses ==
    {open_trades[k] : k \in {n \in 1..Len(open_trades) :
        /\ all_trades[open_trades[n]].outcome = "OPEN"
        /\ HasExpired(all_trades[open_trades[n]], current_bar)}}

\* expiry_pnl = _check_and_close_expiry_positions(...); current_capital += expiry_pnl
ExpiryStep ==
    /\ pc = "expiry"
    /\ \E px \in Quotes(ExpiryCloses) :
         AfterCloses(_check_and_close_expiry_positions(open_trades, all_trades,
                                                       current_bar, px), "stop")
    /\ UNCHANGED <<context, current_bar, signal_result, params, i, history,
                   daily_results, current_date, daily_starting_capital, results>>

\* the open trades _check_stop_losses closes on this bar
StopCloses ==
    {open_trades[k] : k \in {n \in 1..Len(open_trades) :
        /\ all_trades[open_trades[n]].outcome = "OPEN"
        /\ hit_stop_loss(all_trades[open_trades[n]], current_bar)}}

\* sl_pnl = _check_stop_losses(...); current_capital += sl_pnl
StopStep ==
    /\ pc = "stop"
    /\ \E px \in Quotes(StopCloses) :
         AfterCloses(_check_stop_losses(open_trades, all_trades, current_bar, px),
                     "signal")
    /\ UNCHANGED <<context, current_bar, signal_result, params, i, history,
                   daily_results, current_date, daily_starting_capital, results>>

\* mutant: signals are evaluated while a trade is open
MayEvaluate_WhileOpen == ~context.signal_triggered_this_week

\* "if not open_trades and not context.signal_triggered_this_week"
MayEvaluate == open_trades = <<>> /\ ~context.signal_triggered_this_week

\* mutant: the signal is not tested against signals_to_test
Selected_Any(signal) == signal.is_triggered

\* "if signal_result.is_triggered and signal_result.signal_type.value in
\* params.signals_to_test"
Selected(signal) ==
    signal.is_triggered /\ signal.signal_type \in params.signals_to_test

\* "if trade:" open_trades.append(trade), all_trades.append(trade),
\* current_capital -= position_cost
OpenOutcome(trade) ==
    IF trade # <<>>
    THEN /\ open_trades' = Append(open_trades, Len(all_trades) + 1)
         /\ all_trades' = Append(all_trades, trade[1])
         /\ current_capital' =
               fsub(current_capital, _calculate_position_cost(trade[1].positions))
    ELSE UNCHANGED <<open_trades, all_trades, current_capital>>

\* what the gateway may answer _open_trade for the main and the hedge leg
MainQuotes == PriceOutcomes
HedgeQuotes(main_price) ==
    IF params.use_hedging /\ main_price # Raises THEN PriceOutcomes ELSE {None}

\* the loop body after evaluate_all_signals returned r
SignalOutcome(r) ==
    /\ signal_result' = r.signal
    /\ context' = r.context
    /\ IF Selected(r.signal)
       THEN \E main_price \in MainQuotes :
              \E hedge_price \in HedgeQuotes(main_price) :
                 OpenOutcome(_open_trade(r.signal, current_bar, r.context, params,
                                         main_price, hedge_price))
       ELSE UNCHANGED <<open_trades, all_trades, current_capital>>

\* the evaluation of the bar and, on a selected signal, _open_trade and the
\* deduction of the position cost
SignalStep ==
    /\ pc = "signal"
    /\ IF MayEvaluate
       THEN SignalOutcome(evaluate_all_signals(current_bar, context))
       ELSE UNCHANGED <<signal_result, context, open_trades, all_trades,
                        current_capital>>
    /\ pc' = "bar"
    /\ UNCHANGED <<current_bar, params, status, error_message, i, history, daily_results,
                   current_date, daily_starting_capital, results>>

\* "for daily in daily_results: equity_curve.append(float(daily.ending_capital))"
RECURSIVE EndingCapitals(_)
EndingCapitals(daily) ==
    IF daily = <<>> THEN <<>>
    ELSE <<Head(daily).ending_capital>> \o EndingCapitals(Tail(daily))

equity_curve == <<float_of(params.initial_capital)>> \o EndingCapitals(daily_results)

\* the trades the loop that follows the series closes
FinalCloses ==
    {open_trades[k] : k \in {n \in 1..Len(open_trades) :
        all_trades[open_trades[n]].outcome = "OPEN"}}

\* the results dict
Results(trades, max_drawdown) ==
    [final_capital |-> current_capital,
     total_trades |-> Len(trades),
     winning_trades |-> Cardinality({k \in 1..Len(trades) : trades[k].outcome = "WIN"}),
     losing_trades |-> Cardinality({k \in 1..Len(trades) : trades[k].outcome = "LOSS"}),
     total_pnl |-> fsub(current_capital, float_of(params.initial_capital)),
     max_drawdown |-> max_drawdown.value,
     max_drawdown_percent |-> max_drawdown.percent]

\* the end of _run_backtest_logic and of execute, st being what the closing
\* loop left
FinishOutcome(st) ==
    /\ all_trades' = st.trades
    /\ IF st.raised
       THEN /\ status' = "FAILED"
            /\ error_message' = Recorded(GatewayMessage)
            /\ pc' = "failed"
            /\ UNCHANGED results
       ELSE /\ results' = <<Results(st.trades, _calculate_max_drawdown(equity_curve))>>
            /\ status' = "COMPLETED"
            /\ pc' = "done"
            /\ UNCHANGED error_message

\* the series is exhausted: the remaining open trades are closed on the last
\* data point, the metrics are computed, the run is COMPLETED
Finish ==
    /\ pc = "bar"
    /\ i >= 1
    /\ \E px \in Quotes(FinalCloses) :
         FinishOutcome(FinalCloseLoop([trades |-> all_trades, raised |-> FALSE], 1,
                                      open_trades, current_bar, px))
    /\ UNCHANGED <<context, current_bar, signal_result, params, i, history,
                   current_capital, open_trades, daily_results, current_date,
                   daily_starting_capital>>

Next == Start \/ NoData \/ ReadBar \/ ExpiryStep \/ StopStep \/ SignalStep \/ Finish

Spec == Init /\ [][Next]_vars

(***************************************************************************)
(* SpecCalc: the zone calculation and the strike selection called on their *)
(* own, as the check scripts and _open_trade call them.  context.zones     *)
(* holds the zones computed; results holds the arguments and the strikes   *)
(* of the get_option_strikes_for_signal call.                              *)
(***************************************************************************)
\* previous-week highs and lows lie within CalcRange hundredths of CalcBase,
\* spot prices within CalcSpots hundredths of it, on both sides of a strike
\* and of the half-way point between two strikes
CalcRange == 3
CalcSpots == 2

CalcBase == 25000 * 100

CalcLevels ==
    {CalcBase + d : d \in 0..CalcRange} \cup {CalcBase + 20000 + d : d \in 0..CalcRange}

CalcSpotPrices ==
    UNION {{b - d, b + d} : <<b, d>> \in {CalcBase, CalcBase + 2500, CalcBase + 5000,
                                          CalcBase + 7500} \X (0..CalcSpots)}

CalcHedgeOffsets == {0, 10000, 50000}

InitCalc ==
    /\ context = EmptyContext
    /\ current_bar = NoBar
    /\ signal_result = no_signal
    /\ pc = "calc"
    /\ params = [signals_to_test |-> SignalSet]
    /\ status = "NONE"
    /\ error_message = NoMessage
    /\ i = 0
    /\ history = EmptyHistory
    /\ current_capital = FloatZero
    /\ open_trades = <<>>
    /\ all_trades = <<>>
    /\ daily_results = <<>>
    /\ current_date = None
    /\ daily_starting_capital = FloatZero
    /\ results = <<>>

\* the zones of a previous week are computed
CalcZones ==
    /\ pc = "calc"
    /\ pc' = "zones"
    /\ \E week_high \in CalcLevels, week_low \in CalcLevels, week_close \in CalcLevels :
          /\ week_low <= week_close
          /\ week_close <= week_high
          /\ context' = [context EXCEPT
                           !.zones = calculate_zones(week_high, week_low, week_close)]
    /\ UNCHANGED <<current_bar, signal_result, svars>>

\* get_option_strikes_for_signal(spot_price, signal_type, hedge_offset)
CalcStrikes ==
    /\ pc = "calc"
    /\ pc' = "strikes"
    /\ \E spot_price \in CalcSpotPrices, signal_type \in SignalSet,
          hedge_offset \in CalcHedgeOffsets :
          results' = << [spot_price |-> spot_price, signal_type |-> signal_type,
                         hedge_offset |-> hedge_offset,
                         strikes |-> get_option_strikes_for_signal(
                                         spot_price, signal_type, hedge_offset)] >>
    /\ UNCHANGED <<context, current_bar, signal_result, params, status, error_message, i,
                   history, current_capital, open_trades, all_trades,
                   daily_results, current_date, daily_starting_capital>>

\* the trade CalcClose closes: opened in the second week at an index of
\* CalcBase, sold at 100.00, with or without a bought leg at 50.01 that is
\* hedge_offset away
CalcTrade(signal_type, hedged) ==
    BacktestTrade(from_signal(signal_type, CalcBase, DaysPerWeek, CalcBase, 85),
                  BarData(DaysPerWeek, CalcBase, CalcBase, CalcBase, CalcBase),
                  [context EXCEPT !.current_week_start = DaysPerWeek],
                  OpenPositions(from_signal(signal_type, CalcBase, DaysPerWeek, CalcBase, 85),
                                BarData(DaysPerWeek, CalcBase, CalcBase, CalcBase, CalcBase),
                                [lot_size |-> 75, use_hedging |-> hedged],
                                get_option_strikes_for_signal(CalcBase, signal_type, 50000),
                                get_expiry_for_week(DaysPerWeek), 10000, 5001))

\* exit times before, at and after the expiry of the trade's week, and index
\* prices below, at and above its strike
CalcExitTimes == {get_expiry_for_week(DaysPerWeek) + d : d \in {-1, 0, 1}}
CalcIndexPrices == {CalcBase - 10000, CalcBase, CalcBase + 10025}
CalcCauses == {<<"EXPIRED", "Weekly expiry">>, <<"STOPPED", "Stop loss hit">>}

\* _close_trade(trade, exit_time, index_price, outcome, reason), the gateway
\* answering px; results holds the arguments and the gateway's answers
CalcClose ==
    /\ pc = "calc"
    /\ pc' = "closed"
    /\ \E signal_type \in {"S1", "S3"}, hedged \in BOOLEAN, exit_time \in CalcExitTimes,
          index_price \in CalcIndexPrices, cause \in CalcCauses,
          px \in [PositionTypes -> PriceOutcomes] :
          /\ ~hedged => px["HEDGE"] = None
          /\ all_trades' = << _close_trade(CalcTrade(signal_type, hedged), exit_time,
                                           index_price, cause[1], cause[2], px).trade >>
          /\ results' = << [exit_time |-> exit_time, index_price |-> index_price,
                            px |-> px,
                            raised |-> _close_trade(CalcTrade(signal_type, hedged),
                                                    exit_time, index_price, cause[1],
                                                    cause[2], px).raised] >>
    /\ UNCHANGED <<context, current_bar, signal_result, params, status, error_message, i,
                   history, current_capital, open_trades, daily_results, current_date,
                   daily_starting_capital>>

NextCalc == CalcZones \/ CalcStrikes \/ CalcClose

SpecCalc == InitCalc /\ [][NextCalc]_vars

(***************************************************************************)
(* SpecTrig: the breakout and breakdown checks run on each bar of one week *)
(* as it is appended, as _evaluate_s7 and _evaluate_s8 run them on every   *)
(* bar they are called for.  results holds, per bar, what the two checks   *)
(* returned and the trackers of the context they were given.               *)
(***************************************************************************)
\* bars of the week
MaxTrigBars == 4

\* price k points above CalcBase
TrigLevel(k) == CalcBase + k * 100

\* <<open, high, low, close>>: one-point candles up and down, and the same
\* with a one-point wick on the side of the move
TrigShapes ==
    {<<TrigLevel(k), TrigLevel(k + 1), TrigLevel(k), TrigLevel(k + 1)>> : k \in 0..3}
    \cup {<<TrigLevel(k + 1), TrigLevel(k + 1), TrigLevel(k), TrigLevel(k)>> : k \in 0..3}
    \cup {<<TrigLevel(k), TrigLevel(k + 2), TrigLevel(k), TrigLevel(k + 1)>> : k \in 0..2}
    \cup {<<TrigLevel(k + 2), TrigLevel(k + 2), TrigLevel(k), TrigLevel(k + 1)>> : k \in 0..2}

\* the previous week the zones of the week come from
TrigPrevWeek == [high |-> TrigLevel(4), low |-> TrigLevel(0), close |-> TrigLevel(2)]

InitTrig ==
    /\ context = EmptyContext
    /\ current_bar = NoBar
    /\ signal_result = no_signal
    /\ pc = "week"
    /\ params = [signals_to_test |-> SignalSet]
    /\ status = "NONE"
    /\ error_message = NoMessage
    /\ i = 0
    /\ history = EmptyHistory
    /\ current_capital = FloatZero
    /\ open_trades = <<>>
    /\ all_trades = <<>>
    /\ daily_results = <<>>
    /\ current_date = None
    /\ daily_starting_capital = FloatZero
    /\ results = <<>>

\* what is kept of the calls on one bar: the trackers of the context before
\* them and what they returned
TrigRecord(ctx, chk4, chk8) ==
    [s4 |-> chk4.fired, s8 |-> chk8.fired,
     s4_breakout_candle_high |-> ctx.s4_breakout_candle_high,
     s8_breakdown_candle_low |-> ctx.s8_breakdown_candle_low]

TrigAfter(ctx, chk4, chk8) ==
    /\ context' = chk8.context
    /\ results' = Append(results, TrigRecord(ctx, chk4, chk8))

TrigS8(ctx, chk4) ==
    TrigAfter(ctx, chk4, _check_s8_trigger(ctx.weekly_bars, chk4.context))

\* _check_s4_trigger, then _check_s8_trigger, on the context update_context left
TrigChecks(ctx) == TrigS8(ctx, _check_s4_trigger(ctx.weekly_bars, ctx))

\* the first bar of the week
TrigFirstBar ==
    /\ pc = "week"
    /\ pc' = "trig"
    /\ \E sh \in TrigShapes :
          /\ current_bar' = BarData(0, sh[1], sh[2], sh[3], sh[4])
          /\ TrigChecks(update_context(context, current_bar', TrigPrevWeek, "NEUTRAL"))
    /\ UNCHANGED <<signal_result, params, status, error_message, i, history,
                   current_capital, open_trades, all_trades, daily_results,
                   current_date, daily_starting_capital>>

\* a later bar of the week, on the day of the bar before it or on the next
TrigNextBar ==
    /\ pc = "trig"
    /\ Len(context.weekly_bars) < MaxTrigBars
    /\ \E sh \in TrigShapes,
          ts \in {current_bar.timestamp, current_bar.timestamp + 1} \cap 0..(DaysPerWeek - 1) :
          /\ current_bar' = BarData(ts, sh[1], sh[2], sh[3], sh[4])
          /\ TrigChecks(update_context(context, current_bar', TrigPrevWeek, context.bias))
    /\ UNCHANGED <<pc, signal_result, params, status, error_message, i, history,
                   current_capital, open_trades, all_trades, daily_results,
                   current_date, daily_starting_capital>>

NextTrig == TrigFirstBar \/ TrigNextBar

SpecTrig == InitTrig /\ [][NextTrig]_vars

(***************************************************************************)
(* Claims checked under SpecEval                                           *)
(***************************************************************************)
\* an evaluate_all_signals call has just returned
Evaluated == pc = "evaluated"

\* C1: once signal_triggered_this_week is true, every evaluate_all_signals
\* call returns no-signal and the flag stays true until the week changes; a
\* call that returns a signal started with the flag false and sets it, so at
\* most one signal is returned per week.
C1_OneSignalPerWeek ==
    [][ /\ (Evaluated' /\ context.signal_triggered_this_week)
            => (signal_result' = no_signal /\ context' = context)
        /\ (/\ context.signal_triggered_this_week
            /\ context'.current_week_start = context.current_week_start)
            => context'.signal_triggered_this_week
        /\ (Evaluated' /\ signal_result'.is_triggered)
            => (/\ ~context.signal_triggered_this_week
                /\ context'.signal_triggered_this_week
                /\ context'.triggered_signal = signal_result'.signal_type)
      ]_vars

\* C1 witness: a call made after this week's signal returned no-signal on a
\* bar on which the evaluators would trigger
C1_Witness ==
    /\ Evaluated
    /\ context.signal_triggered_this_week
    /\ signal_result = no_signal
    /\ EvaluatorLoop(1, current_bar, context).signal.is_triggered

\* C2: when evaluate_all_signals returns Sk, no Sj with j < k has its
\* conditions satisfied on the bar and the context of the call; when the
\* conditions of S1 and S3 both hold, the result is S1.
C2_FirstMatchWins ==
    [][ Evaluated' =>
          LET k == SignalIndex(signal_result'.signal_type)
          IN /\ \A j \in 1..8 :
                  (0 < k /\ j < k)
                    => ~Evaluator(j, current_bar, context).signal.is_triggered
             /\ (/\ ~context.signal_triggered_this_week
                 /\ _evaluate_s1(current_bar, context).signal.is_triggered
                 /\ _evaluate_s3(current_bar, context).signal.is_triggered)
                  => signal_result'.signal_type = "S1"
      ]_vars

\* C2 witness: S1 was returned on a second bar on which S3 triggers as well
C2_Witness ==
    /\ Evaluated
    /\ signal_result.signal_type = "S1"
    /\ is_second_bar(context)
    /\ _evaluate_s3(current_bar, context).signal.is_triggered

\* the week of the scenario: first bar open 25151.10, close 25119.80, low
\* 25041.90, second bar close 25063.95, evaluated on the second bar
S1Scenario ==
    /\ Evaluated
    /\ Len(context.weekly_bars) = 2
    /\ context.weekly_bars[1].open = 2515110
    /\ context.weekly_bars[1].close = 2511980
    /\ context.weekly_bars[1].low = 2504190
    /\ current_bar = context.weekly_bars[2]
    /\ current_bar.close = 2506395

S1Triggered ==
    /\ signal_result.is_triggered
    /\ signal_result.signal_type = "S1"
    /\ signal_result.stop_loss = 2501060

\* C7 as stated: with support_bottom = 25000 the scenario triggers S1 with
\* stop loss 25010.60
C7_Original ==
    (S1Scenario /\ context.zones.lower_zone_bottom = 2500000) => S1Triggered

\* C7 amended: the scenario triggers S1, with stop loss 25010.60, exactly when
\* support_bottom lies above the first bar's close and not above its open
\* (25119.80 < support_bottom <= 25151.10); with support_bottom = 25000 the
\* first bar did not close below support and S1 does not trigger.
C7_S1Scenario ==
    S1Scenario =>
        IF /\ 2511980 < context.zones.lower_zone_bottom
           /\ context.zones.lower_zone_bottom <= 2515110
        THEN S1Triggered
        ELSE signal_result.signal_type # "S1"

\* C7 witness: the scenario with support_bottom = 25130 has triggered S1
C7_Witness ==
    /\ S1Scenario
    /\ context.zones.lower_zone_bottom = 2513000
    /\ S1Triggered

(***************************************************************************)
(* Claims checked under Spec                                               *)
(***************************************************************************)
\* the positions of the trade list, as <<trade, position>> index pairs
Positions ==
    {tp \in (1..Len(all_trades)) \X (1..2) : tp[2] <= Len(all_trades[tp[1]].positions)}

PositionAt(tp) == all_trades[tp[1]].positions[tp[2]]

\* the positions _close_trade has closed
ClosedPositions == {tp \in Positions : PositionAt(tp).exit_time # None}

C4_ClosedOnce ==
    [][ \A k \in 1..Len(all_trades) :
          all_trades[k].outcome # "OPEN"
            => /\ k <= Len(all_trades')
               /\ all_trades'[k].outcome = all_trades[k].outcome
               /\ all_trades'[k].exit_time = all_trades[k].exit_time
               /\ all_trades'[k].exit_reason = all_trades[k].exit_reason
               /\ all_trades'[k].total_pnl = all_trades[k].total_pnl
               /\ all_trades'[k].positions = all_trades[k].positions
      ]_vars

\* C4 witness: the run completed, with a trade that had been closed at its
\* expiry before the last data point of the series
C4_Witness ==
    /\ pc = "done"
    /\ \E k \in 1..Len(all_trades) :
          /\ all_trades[k].exit_reason = "Weekly expiry"
          /\ all_trades[k].exit_time < current_bar.timestamp

\* the sum of net_pnl over the positions, in Decimal arithmetic
RECURSIVE SumNetPnl(_)
SumNetPnl(positions) ==
    IF positions = <<>> THEN 0
    ELSE Head(positions).net_pnl + SumNetPnl(Tail(positions))

\* _close_trade has returned for the trade
Closed(trade) == ~trade.total_pnl.is_none

\* C5 as stated: after _close_trade the trade's total_pnl equals exactly the
\* sum of net_pnl over its positions (0 for a trade without positions).
C5_TotalPnlExact ==
    \A k \in 1..Len(all_trades) :
        Closed(all_trades[k])
          => /\ all_trades[k].total_pnl.exact
             /\ all_trades[k].total_pnl.amount = SumNetPnl(all_trades[k].positions)

NoMainLeg(trade) ==
    \A j \in 1..Len(trade.positions) : trade.positions[j].position_type # "MAIN"

\* C6 as stated: when the gateway returns no price for the main leg of a
\* selected signal the trade is abandoned, so the opening step of a bar adds
\* no trade without a main position to the trade list or the open-trade list,
\* and changes capital only for a trade that has its main position.
C6_AbandonedWithoutMainPrice ==
    [][ pc = "signal" =>
          /\ \A k \in 1..Len(all_trades') :
                k > Len(all_trades) => ~NoMainLeg(all_trades'[k])
          /\ \A n \in 1..Len(open_trades') : ~NoMainLeg(all_trades'[open_trades'[n]])
          /\ current_capital' # current_capital
                => /\ all_trades' # <<>>
                   /\ ~NoMainLeg(all_trades'[Len(all_trades')])
      ]_vars

\* a PUT sold at strike 25000 for premium 100 with lot_size 75, closed at 0
SoldPutScenario(position) ==
    /\ position.option_type = "PE"
    /\ position.strike_price = 2500000
    /\ position.entry_price = 10000
    /\ position.quantity = 0 - 75
    /\ position.exit_price = 0

\* C8: a closed position has gross_pnl = |quantity| * (entry_price -
\* exit_price) if it was sold and quantity * (exit_price - entry_price) if it
\* was bought, and net_pnl = gross_pnl - commission; a PUT sold at strike
\* 25000 for premium 100 with lot_size 75 and commission_per_lot 40 that is
\* closed at intrinsic value 0 has gross_pnl 7500, commission 80 and net_pnl
\* 7420, which is also what calculate_option_payoff returns for it.
C8_PositionPnl ==
    \A tp \in ClosedPositions :
        /\ PositionAt(tp).quantity < 0
              => PositionAt(tp).gross_pnl
                   = Abs(PositionAt(tp).quantity)
                       * (PositionAt(tp).entry_price - PositionAt(tp).exit_price)
        /\ PositionAt(tp).quantity >= 0
              => PositionAt(tp).gross_pnl
                   = PositionAt(tp).quantity
                       * (PositionAt(tp).exit_price - PositionAt(tp).entry_price)
        /\ PositionAt(tp).net_pnl = PositionAt(tp).gross_pnl - PositionAt(tp).commission
        /\ SoldPutScenario(PositionAt(tp))
              => /\ PositionAt(tp).gross_pnl = 750000
                 /\ PositionAt(tp).commission = 8000
                 /\ PositionAt(tp).net_pnl = 742000
                 /\ calculate_option_payoff("PE", 2500000, 2500000, 10000, 0 - 75, 4000)
                      = float_of(PositionAt(tp).net_pnl)

\* C8 witness: the sold PUT of the scenario expired without a price from the
\* gateway, the index closing at its strike, and was closed at intrinsic value 0
C8_Witness ==
    \E tp \in ClosedPositions :
        /\ SoldPutScenario(PositionAt(tp))
        /\ params.commission_per_lot = 4000
        /\ PositionAt(tp).exit_time >= PositionAt(tp).expiry_date
        /\ all_trades[tp[1]].index_price_at_exit = 2500000
        /\ PositionAt(tp).net_pnl = 742000

\* C9 as stated: the commission of each closed position is (|quantity| //
\* lot_size) * commission_per_lot * 2 with the lot_size and commission_per_lot
\* configured for the run.
C9_ConfiguredCommission ==
    \A tp \in ClosedPositions :
        PositionAt(tp).commission
          = (Abs(PositionAt(tp).quantity) \div params.lot_size)
              * params.commission_per_lot * 2

\* C10 as stated: the reported max_drawdown is >= 0 and <= the running peak
\* capital at the point where it is measured, also when capital falls below 0.
C10_DrawdownBounded ==
    results # <<>>
      => /\ ~fless(results[1].max_drawdown, FloatZero)
         /\ ~fless(results[1].max_drawdown_percent.peak, results[1].max_drawdown)

C12_ZoneOrder ==
    (pc = "zones" /\ context.zones.prev_week_low < context.zones.prev_week_high)
      => /\ X40(context.zones.lower_zone_bottom) <= context.zones.lower_zone_top_x40
         /\ context.zones.lower_zone_top_x40 <= context.zones.upper_zone_bottom_x40
         /\ context.zones.upper_zone_bottom_x40 <= X40(context.zones.upper_zone_top)
         /\ context.zones.lower_zone_bottom = context.zones.prev_week_low
         /\ context.zones.upper_zone_top = context.zones.prev_week_high

\* C12 witness: the zones of a week whose range is a single hundredth of a
\* point, the two inner bounds strictly between its low and its high
C12_Witness ==
    /\ pc = "zones"
    /\ context.zones.prev_week_high = context.zones.prev_week_low + 1
    /\ X40(context.zones.lower_zone_bottom) < context.zones.lower_zone_top_x40
    /\ context.zones.lower_zone_top_x40 < context.zones.upper_zone_bottom_x40

\* C13: get_option_strikes_for_signal returns a main strike that is a
\* multiple of 50 and a nearest such multiple to the spot price (at most 25
\* points from it), with hedge_strike = main - hedge_offset for S1, S2, S4, S7
\* and hedge_strike = main + hedge_offset for S3, S5, S6, S8.
C13_Strikes ==
    pc = "strikes"
      => /\ results[1].strikes.main % (50 * 100) = 0
         /\ Abs(results[1].strikes.main - results[1].spot_price) <= 25 * 100
         /\ results[1].signal_type \in {"S1", "S2", "S4", "S7"}
               => results[1].strikes.hedge
                    = results[1].strikes.main - results[1].hedge_offset
         /\ results[1].signal_type \in {"S3", "S5", "S6", "S8"}
               => results[1].strikes.hedge
                    = results[1].strikes.main + results[1].hedge_offset

\* C13 witness: a spot price half-way between two strikes, for a bearish
\* signal with a hedge 500 points above the main strike
C13_Witness ==
    /\ pc = "strikes"
    /\ results[1].spot_price = CalcBase + 25 * 100
    /\ results[1].signal_type = "S3"
    /\ results[1].hedge_offset = 50000
    /\ results[1].strikes.main = CalcBase
    /\ results[1].strikes.hedge = CalcBase + 50000


C15_GatewayErrorsCaught ==
    ~(status = "FAILED" /\ error_message = GatewayMessage)


\* C16: at most one trade is open at any time; signals are evaluated and a
\* trade is opened only in the signal step of a bar, with no open trade left
\* by the expiry and stop-loss steps and no signal fired this week; each
\* trade's entry_time is at or after the exit_time of the trade before it
C16_OneOpenTrade ==
    [][ /\ Len(open_trades') <= 1
        /\ Cardinality({k \in 1..Len(all_trades') : all_trades'[k].outcome = "OPEN"}) <= 1
        /\ \/ Len(all_trades') > Len(all_trades)
           \/ signal_result' # signal_result /\ signal_result'.is_triggered
           => /\ pc = "signal"
              /\ open_trades = <<>>
              /\ ~context.signal_triggered_this_week
              /\ \A k \in 1..Len(all_trades) : all_trades[k].outcome # "OPEN"
        /\ \A k \in 2..Len(all_trades') :
              /\ all_trades'[k - 1].exit_time # None
              /\ all_trades'[k].entry_time >= all_trades'[k - 1].exit_time ]_vars

C16_Witness ==
    /\ Len(all_trades) = 2 /\ open_trades = <<2>>
    /\ all_trades[1].outcome # "OPEN" /\ all_trades[2].outcome = "OPEN"
    /\ all_trades[2].entry_time = all_trades[1].exit_time


\* the float _close_trade returned for a closed trade: 0.0 plus the net P&L of
\* its positions, in their order
RECURSIVE ReturnedPnl(_)
ReturnedPnl(positions) ==
    IF positions = <<>> THEN FloatZero
    ELSE fadd(ReturnedPnl(AllButLast(positions)),
              float_of(positions[Len(positions)].net_pnl))

\* the trade is open with the bar at or after the expiry of the trade's week
AtExpiry(trade, bar) ==
    /\ trade.outcome = "OPEN"
    /\ bar.timestamp >= get_expiry_for_week(trade.week_start_date)

\* what the expiry step made of a trade that was at expiry
ClosedByExpiry(before, after, bar, capital_before, capital_after) ==
    /\ after.exit_reason = "Weekly expiry"
    /\ after.exit_time = bar.timestamp
    /\ after.index_price_at_exit = bar.close
    /\ after.outcome \in {"WIN", "LOSS", "EXPIRED"}
    /\ after.entry_time = before.entry_time
    /\ capital_after = fadd(capital_before, fadd(FloatZero, ReturnedPnl(after.positions)))

\* C17 as stated: once the expiry step of a processed bar is done, no trade is
\* open whose week's expiry is at or before the bar
C17_Original ==
    pc = "stop" => \A k \in 1..Len(all_trades) : ~AtExpiry(all_trades[k], current_bar)

\* C17 for trades that have a position: the expiry step runs before the
\* stop-loss step; unless the
\* gateway raises, it closes every open trade that has a position and whose
\* expiry is at or before the bar, with exit_reason "Weekly expiry", and adds
\* the P&L to the capital; it leaves every other trade alone; the stop-loss
\* step of the bar does not touch a trade the expiry step closed
C17_ExpiryFirst ==
    [][ /\ pc = "expiry" => pc' \in {"stop", "failed"}
        /\ pc' = "signal" => pc = "stop"
        /\ (pc = "expiry" /\ pc' = "stop")
           => /\ Len(all_trades') = Len(all_trades)
              /\ \A k \in 1..Len(all_trades) :
                    IF AtExpiry(all_trades[k], current_bar) /\ all_trades[k].positions # <<>>
                    THEN /\ ClosedByExpiry(all_trades[k], all_trades'[k], current_bar,
                                           current_capital, current_capital')
                         /\ \A n \in 1..Len(open_trades') : open_trades'[n] # k
                    ELSE all_trades'[k] = all_trades[k]
              /\ (\A k \in 1..Len(all_trades) :
                     ~(AtExpiry(all_trades[k], current_bar) /\ all_trades[k].positions # <<>>))
                 => current_capital' = fadd(current_capital, FloatZero) /\ open_trades' = open_trades
        /\ pc = "stop"
           => \A k \in 1..Len(all_trades) :
                 all_trades[k].exit_reason = "Weekly expiry" => all_trades'[k] = all_trades[k] ]_vars

\* a trade at expiry and in stop-loss breach on the same bar, closed by expiry
C17_Witness ==
    /\ pc = "stop" /\ open_trades = <<>> /\ all_trades # <<>>
    /\ all_trades[Len(all_trades)].exit_reason = "Weekly expiry"
    /\ all_trades[Len(all_trades)].exit_time = current_bar.timestamp
    /\ all_trades[Len(all_trades)].index_price_at_exit = current_bar.close
    /\ all_trades[Len(all_trades)].positions # <<>>
    /\ hit_stop_loss(all_trades[Len(all_trades)], current_bar)


\* the bar's close breaches the stop of an open trade
Breached(trade, bar) ==
    /\ trade.outcome = "OPEN"
    /\ \/ trade.direction = "BULLISH" /\ bar.close <= trade.stop_loss_price
       \/ trade.direction = "BEARISH" /\ bar.close >= trade.stop_loss_price

\* what the stop-loss step made of a trade whose stop was breached
ClosedByStop(before, after, bar) ==
    /\ after.exit_reason = "Stop loss hit"
    /\ after.exit_time = bar.timestamp
    /\ after.index_price_at_exit = bar.close
    /\ after.outcome \in {"WIN", "LOSS", "STOPPED"}
    /\ after.direction = before.direction
    /\ after.stop_loss_price = before.stop_loss_price

ClosedAtEnd(before, after, last) ==
    /\ after.exit_reason = "Backtest ended"
    /\ after.exit_time = last.timestamp
    /\ after.index_price_at_exit = last.close
    /\ after.outcome \in {"WIN", "LOSS", "EXPIRED"}
    /\ ~after.total_pnl.is_none
    /\ Len(after.positions) = Len(before.positions)
    /\ \A j \in 1..Len(after.positions) :
          /\ after.positions[j].exit_time = last.timestamp
          /\ after.positions[j].exit_price # None

\* C19: when the series is exhausted and the simulation returns, every trade
\* that was still OPEN has been closed with exit_reason "Backtest ended" at the
\* timestamp and close of the last data point, every other trade is as it was,
\* and no trade of the list has outcome OPEN
C19_ClosedAtEnd ==
    [][ pc' = "done"
        => /\ pc = "bar" /\ i >= 1 /\ current_bar' = current_bar
           /\ Len(all_trades') = Len(all_trades)
           /\ \A k \in 1..Len(all_trades) :
                 IF all_trades[k].outcome = "OPEN"
                 THEN ClosedAtEnd(all_trades[k], all_trades'[k], current_bar)
                 ELSE all_trades'[k] = all_trades[k]
           /\ \A k \in 1..Len(all_trades') : all_trades'[k].outcome # "OPEN" ]_vars

\* a run that returned after closing a trade with positions at the end of the
\* series, the last data point lying after the trade's entry
C19_Witness ==
    /\ pc = "done" /\ status = "COMPLETED" /\ all_trades # <<>>
    /\ all_trades[Len(all_trades)].exit_reason = "Backtest ended"
    /\ all_trades[Len(all_trades)].positions # <<>>
    /\ all_trades[Len(all_trades)].exit_time > all_trades[Len(all_trades)].entry_time
    /\ all_trades[Len(all_trades)].index_price_at_exit # all_trades[Len(all_trades)].index_price_at_entry


\* the closing cause that was passed to _close_trade with the exit reason
ClosingCause(trade) ==
    IF trade.exit_reason = "Stop loss hit" THEN "STOPPED" ELSE "EXPIRED"

\* the sign of the float total_pnl of _close_trade, summed again from the
\* positions, and of the Decimal stored from it
FloatPnlSign(total_pnl) ==
    IF fless(FloatZero, total_pnl) THEN 1
    ELSE IF fless(total_pnl, FloatZero) THEN -1 ELSE 0

StoredPnlSign(total_pnl) ==
    IF total_pnl.amount > 0 THEN 1
    ELSE IF total_pnl.amount < 0 THEN -1 ELSE 0

OutcomeOfSign(sign, cause) ==
    IF sign > 0 THEN "WIN" ELSE IF sign < 0 THEN "LOSS" ELSE cause

\* C20: a closed trade has outcome WIN iff its total_pnl > 0, LOSS iff its
\* total_pnl < 0, and the closing cause (EXPIRED or STOPPED) iff its total_pnl
\* is exactly 0; the metrics count the trades with total_pnl > 0 as winning and
\* those with total_pnl < 0 as losing, so winning_trades + losing_trades <=
\* total_trades
C20_Outcome ==
    /\ \A k \in 1..Len(all_trades) :
          Closed(all_trades[k])
            => /\ all_trades[k].total_pnl.amount = 0 => all_trades[k].total_pnl.exact
               /\ StoredPnlSign(all_trades[k].total_pnl)
                     = FloatPnlSign(ReturnedPnl(all_trades[k].positions))
               /\ all_trades[k].outcome
                     = OutcomeOfSign(StoredPnlSign(all_trades[k].total_pnl),
                                     ClosingCause(all_trades[k]))
               /\ all_trades[k].outcome \in {"WIN", "LOSS", "EXPIRED", "STOPPED"}
    /\ results # <<>>
         => /\ results[1].total_trades = Len(all_trades)
            /\ results[1].winning_trades
                  = Cardinality({k \in 1..Len(all_trades) : all_trades[k].total_pnl.amount > 0})
            /\ results[1].losing_trades
                  = Cardinality({k \in 1..Len(all_trades) : all_trades[k].total_pnl.amount < 0})
            /\ results[1].winning_trades + results[1].losing_trades <= results[1].total_trades

\* a finished run with a trade that won or lost and a trade with positions that
\* made exactly nothing and kept its closing cause
C20_Witness ==
    /\ pc = "done" /\ Len(all_trades) = 2
    /\ results[1].winning_trades + results[1].losing_trades = 1
    /\ \E k \in 1..2 :
          /\ all_trades[k].outcome = ClosingCause(all_trades[k])
          /\ all_trades[k].positions # <<>>
          /\ all_trades[k].total_pnl.amount = 0


(***************************************************************************)
(* Claims checked under Spec: capital, settlement and bookkeeping          *)
(***************************************************************************)
\* the bought positions of a trade
Bought(trade) == {j \in 1..Len(trade.positions) : trade.positions[j].quantity > 0}

\* capital after a trade was opened, against the capital before: less the
\* premium entry_price * quantity of its bought position, to the hundredth and
\* as the float subtraction gives it
PremiumPaid(trade, before, after) ==
    /\ Cardinality(Bought(trade)) <= 1
    /\ \A j \in Bought(trade) :
          /\ after = fsub(before, fadd(FloatZero,
                              fmul_int(float_of(trade.positions[j].entry_price),
                                       trade.positions[j].quantity)))
          /\ NearestAmount(after)
                = NearestAmount(before)
                    - trade.positions[j].entry_price * trade.positions[j].quantity
    /\ Bought(trade) = {} => after = before

\* C21: opening a trade takes from the capital exactly the premium of its
\* bought (hedge) position, entry_price * quantity, and nothing when it has no
\* bought position; the premium of the sold position is not credited, and a
\* signal step that opens no trade leaves the capital alone
C21_PositionCost ==
    [][ pc = "signal"
        => IF Len(all_trades') = Len(all_trades) + 1
           THEN PremiumPaid(all_trades'[Len(all_trades')], current_capital, current_capital')
           ELSE current_capital' = current_capital /\ all_trades' = all_trades ]_vars

\* a hedged trade was just opened: a sold and a bought position, and the
\* capital below what it was
C21_Witness ==
    /\ pc = "bar" /\ Len(all_trades) = 1 /\ open_trades = <<1>>
    /\ Len(all_trades[1].positions) = 2
    /\ all_trades[1].positions[1].quantity < 0
    /\ all_trades[1].positions[2].quantity > 0
    /\ all_trades[1].entry_time = current_bar.timestamp
    /\ fless(current_capital, float_of(params.initial_capital))


\* max(0, spot - strike) for CE, max(0, strike - spot) for PE
IntrinsicValue(option_type, strike, spot) ==
    IF option_type = "CE"
    THEN IF spot > strike THEN spot - strike ELSE 0
    ELSE IF strike > spot THEN strike - spot ELSE 0

\* the exit price of a closed position, price being the gateway's answer
SettledAt(position, price, index_price) ==
    IF price \in OptPrices THEN position.exit_price = price
    ELSE IF position.exit_time >= position.expiry_date
    THEN position.exit_price
            = IntrinsicValue(position.option_type, position.strike_price, index_price)
    ELSE /\ position.exit_price = 0
         /\ position.quantity < 0
               => position.gross_pnl = Abs(position.quantity) * position.entry_price

\* C22: a position closed while the gateway has no price gets the intrinsic
\* value as exit price if the exit time is at or after its expiry and 0
\* otherwise, a sold position then keeping its whole premium
C22_ExitPrice ==
    (pc = "closed" /\ ~results[1].raised)
      => \A j \in 1..Len(all_trades[1].positions) :
            /\ all_trades[1].positions[j].exit_time = results[1].exit_time
            /\ SettledAt(all_trades[1].positions[j],
                         results[1].px[all_trades[1].positions[j].position_type],
                         results[1].index_price)

\* a sold CALL in the money, stopped before its expiry without a price
C22_Witness ==
    /\ pc = "closed" /\ ~results[1].raised
    /\ results[1].px["MAIN"] = None
    /\ results[1].index_price > all_trades[1].positions[1].strike_price
    /\ all_trades[1].positions[1].option_type = "CE"
    /\ all_trades[1].positions[1].quantity < 0
    /\ results[1].exit_time < all_trades[1].positions[1].expiry_date
    /\ all_trades[1].positions[1].exit_price = 0
    /\ all_trades[1].exit_reason = "Stop loss hit"
    /\ all_trades[1].outcome = "WIN"


(***************************************************************************)
(* Claims checked under SpecTrig                                           *)
(***************************************************************************)
\* the breakout check of the trigger state machine on bars: whether the walk
\* over bars fires, candle being the recorded breakout candle high it starts with
BreakoutCheck(bars, first_hour_bar, candle) ==
    /\ bars # <<>>
    /\ S4Loop([highest_high |-> 0, signal_fired |-> FALSE, candle |-> candle],
              bars, first_hour_bar.high, first_hour_bar.timestamp).signal_fired

\* the breakdown check, likewise
BreakdownCheck(bars, first_hour_bar, candle) ==
    /\ bars # <<>>
    /\ S8Loop([lowest_low |-> None, signal_fired |-> FALSE, candle |-> candle],
              bars, first_hour_bar.low, first_hour_bar.timestamp).signal_fired

\* C23: on the bar just appended the S4 trigger returns true exactly when the
\* breakout check holds on weekly_bars and the same check does not hold on
\* weekly_bars without its last bar; the S8 trigger likewise with the
\* breakdown check
C23_SameCheck ==
    pc = "trig"
      => /\ results[Len(results)].s4
              = (/\ BreakoutCheck(context.weekly_bars, context.first_hour_bar,
                                  results[Len(results)].s4_breakout_candle_high)
                 /\ ~BreakoutCheck(AllButLast(context.weekly_bars), context.first_hour_bar,
                                   results[Len(results)].s4_breakout_candle_high))
         /\ results[Len(results)].s8
              = (/\ BreakdownCheck(context.weekly_bars, context.first_hour_bar,
                                   results[Len(results)].s8_breakdown_candle_low)
                 /\ ~BreakdownCheck(AllButLast(context.weekly_bars), context.first_hour_bar,
                                    results[Len(results)].s8_breakdown_candle_low))


\* the bars after the first-hour bar's day, before the last bar, that closed
\* above the recorded breakout candle high / below the recorded breakdown
\* candle low
EarlierAbove(bars, first_hour_bar, candle) ==
    {k \in 1..(Len(bars) - 1) :
        bars[k].timestamp # first_hour_bar.timestamp /\ bars[k].close > candle}

EarlierBelow(bars, first_hour_bar, candle) ==
    {k \in 1..(Len(bars) - 1) :
        bars[k].timestamp # first_hour_bar.timestamp /\ bars[k].close < candle}

\* C24: on a day after the first-hour bar's day, with a breakout candle
\* recorded in s4_breakout_candle_high, the S4 trigger fires on the first later
\* bar whose close is above the recorded high; the S8 trigger fires on the
\* first later bar whose close is below the recorded s8_breakdown_candle_low
C24_FiresAfterCandle ==
    pc = "trig"
      => /\ (/\ results[Len(results)].s4_breakout_candle_high # None
             /\ current_bar.timestamp # context.first_hour_bar.timestamp
             /\ current_bar.close > results[Len(results)].s4_breakout_candle_high
             /\ EarlierAbove(context.weekly_bars, context.first_hour_bar,
                             results[Len(results)].s4_breakout_candle_high) = {})
            => results[Len(results)].s4
         /\ (/\ results[Len(results)].s8_breakdown_candle_low # None
             /\ current_bar.timestamp # context.first_hour_bar.timestamp
             /\ current_bar.close < results[Len(results)].s8_breakdown_candle_low
             /\ EarlierBelow(context.weekly_bars, context.first_hour_bar,
                             results[Len(results)].s8_breakdown_candle_low) = {})
            => results[Len(results)].s8


\* the bars of the week on which the checks, run on each bar as it was
\* appended, returned true
S4FiredOn == {n \in 1..Len(results) : results[n].s4}

S8FiredOn == {n \in 1..Len(results) : results[n].s8}

\* the first bar of the week closing above the first-hour bar's high / below
\* the first-hour bar's low
FirstAbove(bars, first_hour_bar, n) ==
    /\ bars[n].close > first_hour_bar.high
    /\ \A k \in 1..(n - 1) : ~(bars[k].close > first_hour_bar.high)

FirstBelow(bars, first_hour_bar, n) ==
    /\ bars[n].close < first_hour_bar.low
    /\ \A k \in 1..(n - 1) : ~(bars[k].close < first_hour_bar.low)

IsUpdateStep == pc' = "updated"

\* what a reset leaves in the context before the bar is added
ResetFrom(ctx, bar) ==
    /\ ctx.zones = calculate_zones(ctx.zones.prev_week_high,
                                   ctx.zones.prev_week_low,
                                   ctx.zones.prev_week_close)
    /\ \E prev \in EvalPrevWeeks :
          ctx.zones = calculate_zones(prev.high, prev.low, prev.close)
    /\ ctx.bias \in BiasValues
    /\ ctx.signal_triggered_this_week = FALSE
    /\ ctx.s4_breakout_candle_high = None
    /\ ctx.s8_breakdown_candle_low = None
    /\ ctx.weekly_bars = <<bar>>
    /\ ctx.first_hour_bar = bar

Triggers == signal_result' # signal_result /\ signal_result'.is_triggered

\* what evaluate_all_signals would return on the bar were the week unmarked
Unmarked(ctx) == [ctx EXCEPT !.signal_triggered_this_week = FALSE]

WouldTrigger == evaluate_all_signals(current_bar, Unmarked(context)).signal

\* C26: a triggered signal marks the week as triggered whether or not a trade
\* follows (type outside signals_to_test, or _open_trade fails); for the rest
\* of that week no signal is evaluated and no trade is opened
C26_WeekMarked ==
    [][ /\ Triggers => context'.signal_triggered_this_week
        /\ (/\ context.signal_triggered_this_week
            /\ context'.current_week_start = context.current_week_start)
           => /\ context'.signal_triggered_this_week
              /\ ~Triggers
              /\ Len(all_trades') = Len(all_trades) ]_vars

\* a later bar of a marked week has been through the loop body, no trade was
\* ever opened, and a signal of signals_to_test would have triggered on it
C26_Witness ==
    /\ pc = "bar"
    /\ context.signal_triggered_this_week
    /\ all_trades = <<>>
    /\ signal_result = no_signal
    /\ context.weekly_bars # <<>>
    /\ context.weekly_bars[Len(context.weekly_bars)] = current_bar
    /\ Selected(WouldTrigger)


(***************************************************************************)
(* Claims checked under Spec: the reported profit and the daily results    *)
(***************************************************************************)
\* the sum of total_pnl over the trades of the list, in hundredths
RECURSIVE SumTotalPnl(_)
SumTotalPnl(trades) ==
    IF trades = <<>> THEN 0
    ELSE (IF Head(trades).total_pnl.is_none THEN 0
          ELSE Head(trades).total_pnl.amount) + SumTotalPnl(Tail(trades))

\* the trades of the list that the loop after the series closed
ForceClosed == {k \in 1..Len(all_trades) : all_trades[k].exit_reason = "Backtest ended"}

\* C27: with hedging disabled, at the end of a run the reported total_pnl
\* (final_capital - initial_capital) equals the sum of total_pnl over all
\* trades of the trade list, the trades closed at the end of the series
\* included
C27_PnlIsTradeSum ==
    (pc = "done" /\ results # <<>> /\ ~params.use_hedging)
      => NearestAmount(results[1].total_pnl) = SumTotalPnl(all_trades)

\* the same run by run, leaving out the runs in which the loop after the
\* series closed a trade: the reported total_pnl is the sum over the trades
C27_ClosedInLoop ==
    (pc = "done" /\ results # <<>> /\ ~params.use_hedging /\ ForceClosed = {})
      => NearestAmount(results[1].total_pnl) = SumTotalPnl(all_trades)

\* a run without hedging in which a trade made a profit or a loss before the
\* series ended
C27_Witness ==
    /\ pc = "done" /\ results # <<>> /\ ~params.use_hedging /\ ForceClosed = {}
    /\ SumTotalPnl(all_trades) # 0


\* the float x is the double nearest to a whole number of hundredths, so that
\* Decimal(str(x)) is that number of hundredths
IsAmount(x) == float_of(NearestAmount(x)) = x

\* Decimal(str(daily_pnl)) = Decimal(str(ending_capital)) -
\* Decimal(str(starting_capital)), decided where both capitals are amounts of
\* hundredths
PnlIsDifference(daily) ==
    (IsAmount(daily.ending_capital) /\ IsAmount(daily.starting_capital))
      => /\ IsAmount(daily.daily_pnl)
         /\ NearestAmount(daily.daily_pnl)
               = NearestAmount(daily.ending_capital)
                    - NearestAmount(daily.starting_capital)

\* the records are in date order and each starts with the capital the one
\* before it ended with, the first with the initial capital
Chained(daily, initial_capital) ==
    \A k \in 1..Len(daily) :
        IF k = 1 THEN daily[k].starting_capital = float_of(initial_capital)
        ELSE /\ daily[k].starting_capital = daily[k - 1].ending_capital
             /\ daily[k].date > daily[k - 1].date

\* a step writes at most one record, that of the day tracked so far, and only
\* on reading a market-hours bar of a later day (current_date is assigned on
\* market-hours bars only)
WrittenOnLaterDay ==
    IF daily_results' # daily_results
    THEN /\ pc = "bar"
         /\ daily_results' = Append(daily_results, daily_results'[Len(daily_results')])
         /\ daily_results'[Len(daily_results')].date = current_date
         /\ current_date # None
         /\ current_date' = current_bar'.timestamp
         /\ current_bar'.timestamp > current_date
    ELSE TRUE

\* C28: the daily results are a contiguous chain in date order: the first
\* record starts with the initial capital, each later record starts with the
\* ending capital of the record before it, each record's daily_pnl is its
\* ending capital minus its starting capital, and a day's record is written
\* only when a market-hours bar of a later day is seen
C28_DailyChain ==
    [][ /\ WrittenOnLaterDay
        /\ Chained(daily_results', params.initial_capital)
        /\ \A k \in 1..Len(daily_results') : PnlIsDifference(daily_results'[k]) ]_vars

\* the same with daily_pnl taken as the float difference of the two capitals,
\* which is what the record is built from
C28_FloatChain ==
    [][ /\ WrittenOnLaterDay
        /\ Chained(daily_results', params.initial_capital)
        /\ \A k \in 1..Len(daily_results') :
              daily_results'[k].daily_pnl
                 = fsub(daily_results'[k].ending_capital,
                        daily_results'[k].starting_capital) ]_vars

\* two days recorded, the capital having moved on each of them
C28_Witness ==
    /\ Len(daily_results) >= 2
    /\ daily_results[1].daily_pnl # FloatZero
    /\ daily_results[2].daily_pnl # FloatZero


(***************************************************************************)
(* Claims checked under Spec: the positions of a trade                     *)
(***************************************************************************)
\* the positions of a trade of the given position type
Legs(trade, position_type) ==
    {j \in 1..Len(trade.positions) :
        trade.positions[j].position_type = position_type}

\* the option type of the trade's signal: a bullish signal sells puts, a
\* bearish signal sells calls
TradeOptionType(trade) == IF trade.direction = "BULLISH" THEN "PE" ELSE "CE"

====
